---- MODULE Spec2Model ----
(***************************************************************************)
(* Model of SoraClient (src/soraclient.py): the video generation workflow  *)
(* generate_video_sync / generate_video_async, its job poller              *)
(* _poll_job_status_sync / _poll_job_status_async, the credential resolver *)
(* _get_headers_* and the downloader _download_video_*; and of the image   *)
(* clients GptImageClient (src/gptimageclient.py), AzureOpenAIImageClient  *)
(* (src/AzureOpenAIGptImageClient.py) and the Foundry GptImageClient       *)
(* (src/Image/FoundryImageClient/GptImageClient.py).                       *)
(*                                                                         *)
(* A behaviour constructs one client instance and runs calls on it.        *)
(*                                                                         *)
(* Python values are modelled as follows.                                  *)
(*   - an optional string (a str or None) is a sequence of at most one     *)
(*     string: <<>> is None, <<"abc">> is "abc", <<"">> is "";             *)
(*   - a text (an exception message, a response body) is a sequence of     *)
(*     words; `x in text` is the contiguous-subsequence test;              *)
(*   - time is an integer clock `now`, advanced by the duration of every   *)
(*     request and by every sleep.                                         *)
(***************************************************************************)
EXTENDS Integers, Sequences, FiniteSets, TLC

VARIABLES
    cls,             \* the class of the client instance
    args,            \* the constructor's arguments and environment
    image_model,     \* self.model of the Foundry client
    call,            \* the arguments of the running image method
    opened_files,    \* the file handles the image method opened
    posted,          \* the file parts of the image request, as they were sent
    written,         \* every file written so far: path and bytes
    ops,             \* how many methods were invoked on the instance
    calls,           \* the concurrent generate_video_async calls: their locals
    jobs,            \* the video jobs the service created for those calls
    mode,            \* "sync" | "async": which pair of methods runs
    entry,           \* "generate_video" | "poll": the method the caller invoked
    api_key,         \* self.api_key, an optional string
    identity,        \* whether azure.identity could be imported
    timeout,         \* the timeout argument
    poll_interval,   \* the poller's poll_interval argument
    pc,              \* position of the call
    now,             \* time.time()
    start_time,      \* the poller's start_time
    headers,         \* the local `headers` of the running method
    job_id,          \* the local job_id, an optional string
    requests,        \* every HTTP request sent so far, in order
    sleeps,          \* every sleep so far: the time it started at
    response,        \* the response being handled (of the last request)
    job_data,        \* the poller's job_data / generate_video's completed_job
    video_url,       \* the download URL built by generate_video
    dl_headers,      \* the local `headers` of _download_video_*
    result,          \* how the call ended
    getHeadersCalls  \* how many times _get_headers_* ran

vars == <<cls, args, image_model, call, opened_files, posted, written, ops,
          calls, jobs, mode, entry, api_key, identity, timeout, poll_interval,
          pc, now,
          start_time, headers, job_id, requests, sleeps, response, job_data,
          video_url, dl_headers, result, getHeadersCalls>>

\* the state of the image methods, which the video workflow leaves alone
image_vars == <<image_model, call, opened_files, posted, written, ops>>

\* the state of the video workflow, which the image methods leave alone
sora_vars == <<identity, timeout, poll_interval, now, start_time, headers,
               job_id, sleeps, job_data, video_url, dl_headers,
               getHeadersCalls, calls, jobs>>

----------------------------------------------------------------------------
(* Bounds of the model *)

MaxTimeout == 25
MaxQueryDuration == 12
MaxDirectTimeout == 3
MaxDirectPollInterval == 2
MaxOperations == 2

(* Program constants *)

DefaultPollInterval == 10

----------------------------------------------------------------------------
(* Python values *)

None == <<>>
Str(s) == <<s>>
Truthy(v) == v # None /\ v # Str("")
\* (mutant) None is formatted as the empty text
FormatNoneAsEmpty(v) == IF v = None THEN "" ELSE v[1]

\* str(v) as an f-string formats it
Format(v) == IF v = None THEN "None" ELSE v[1]

\* Python's `needle in text` on texts (sequences of words)
Contains(text, needle) ==
    \E i \in 0..(Len(text) - Len(needle)) :
        \A j \in 1..Len(needle) : text[i + j] = needle[j]

----------------------------------------------------------------------------
(* The client instance, as __init__ leaves it *)

endpoint == "https://host"
api_version == "preview"
path == "openai/v1/video/generations/jobs"
videopath == "openai/v1/video/generations"
params == <<"?api-version=", api_version>>
constructed_url == <<endpoint, "/", path>> \o params

ApiKeys == {Str("key1")}

\* the classes of client, and the model of a Foundry client
ImageClasses == {"GptImageClient", "AzureOpenAIImageClient",
                 "FoundryGptImageClient"}
Classes == {"SoraClient"} \cup ImageClasses
ImageModels == {"GPT_IMAGE", "FLUX"}

\* the endpoint argument of the image clients, which is stored as it is given
image_endpoint == "https://img"

\* what __init__ reads: its api_key and endpoint arguments, and the environment
NoArgs == [api_key |-> None, env_api_key |-> None,
           endpoint |-> <<>>, env_endpoint |-> <<>>]
ConstructorArgs(c) ==
    IF c = "SoraClient"
    THEN [api_key : ApiKeys \cup {None, Str("")},
          env_api_key : ApiKeys \cup {None},
          endpoint : {<<>>, <<endpoint>>, <<endpoint, "/">>},
          env_endpoint : {<<>>, <<endpoint>>}]
    ELSE [api_key : ApiKeys \cup {None, Str("")},
          env_api_key : ApiKeys \cup {None},
          endpoint : {<<image_endpoint>>},
          env_endpoint : {<<>>}]
Tokens == {"tokA", "tokB"}
JobIds == {"abc"}
VideoBytes == {"VIDEO1", "VIDEO2"}

NoHeaders == [auth |-> "none", value |-> "", content_type |-> ""]
ApiKeyHeaders(key) ==
    [auth |-> "api-key", value |-> key, content_type |-> "application/json"]
BearerHeaders(token) ==
    [auth |-> "Authorization", value |-> token,
     content_type |-> "application/json"]

----------------------------------------------------------------------------
(* What the service can answer *)

\* the error detail of a job: the key absent, null, or an object with or
\* without a message
NoError == [kind |-> "absent", has_message |-> FALSE, message |-> <<>>]
ErrorShapes ==
    { NoError,
      [kind |-> "null", has_message |-> FALSE, message |-> <<>>],
      [kind |-> "dict", has_message |-> FALSE, message |-> <<>>],
      [kind |-> "dict", has_message |-> TRUE,
       message |-> <<"quota", "exceeded">>] }

\* the generations of a job: the key absent, or a list of descriptors, each
\* with an optional id
NoGenerations == [present |-> FALSE, list |-> <<>>]
GenerationShapes ==
    { NoGenerations,
      [present |-> TRUE, list |-> <<>>],
      [present |-> TRUE, list |-> << [id |-> Str("g1")] >>],
      [present |-> TRUE, list |-> << [id |-> Str("g2")], [id |-> Str("g1")] >>],
      [present |-> TRUE, list |-> << [id |-> None] >>] }

\* a JSON object of the service; a key the object lacks reads as None
NoJson == [id |-> None, status |-> None, error |-> NoError,
           generations |-> NoGenerations]

NonTerminalStatuses == {None, Str("queued"), Str("running"), Str("paused")}
JobDatas ==
    { [NoJson EXCEPT !.status = s] : s \in NonTerminalStatuses }
    \cup { [NoJson EXCEPT !.status = Str(s)] : s \in {"cancelled", "expired"} }
    \cup { [NoJson EXCEPT !.status = Str("failed"), !.error = e] :
             e \in ErrorShapes }
    \cup { [NoJson EXCEPT !.status = Str("succeeded"), !.generations = g] :
             g \in GenerationShapes }

SubmitDatas == { [NoJson EXCEPT !.id = i] : i \in {None, Str(""), Str("abc")} }

BodyTexts == { <<"Internal", "error">>, <<"Job", "failed">>,
               <<"Job", "expired">> }

NoResponse == [kind |-> "none", code |-> 0, body |-> <<>>, json |-> "none",
               data |-> NoJson, content |-> ""]
NetworkError == [NoResponse EXCEPT !.kind = "neterr"]
HttpError(c, b) == [NoResponse EXCEPT !.kind = "http", !.code = c, !.body = b]
HttpJson(c, d) ==
    [NoResponse EXCEPT !.kind = "http", !.code = c, !.json = "dict", !.data = d]
\* a body that is no JSON ("invalid") or JSON that is no object ("list")
HttpOther(c, j) ==
    [NoResponse EXCEPT !.kind = "http", !.code = c, !.json = j]
HttpContent(c, v) ==
    [NoResponse EXCEPT !.kind = "http", !.code = c, !.content = v]

StatusResponses ==
    { NetworkError }
    \cup { HttpError(c, b) : c \in {202, 500}, b \in BodyTexts }
    \cup { HttpOther(200, j) : j \in {"invalid", "list"} }
    \cup { HttpJson(200, d) : d \in JobDatas }

SubmitResponses ==
    { NetworkError }
    \cup { HttpError(c, b) : c \in {200, 500}, b \in {<<"Internal", "error">>} }
    \cup { HttpOther(201, j) : j \in {"invalid", "list"} }
    \cup { HttpJson(201, d) : d \in SubmitDatas }
    \cup { HttpJson(200, [NoJson EXCEPT !.id = Str("abc")]) }

DownloadResponses ==
    { NetworkError }
    \cup { HttpError(c, b) : c \in {404}, b \in {<<"Internal", "error">>} }
    \cup { HttpContent(200, v) : v \in VideoBytes }

QueryDurations == {0, 1, MaxQueryDuration}
Timeouts == {0, DefaultPollInterval, MaxTimeout}

----------------------------------------------------------------------------
(* Exceptions: the raise site and the message str(e) gives *)

NoException == [site |-> "none", msg |-> <<>>]
Exc(site, msg) == [site |-> site, msg |-> msg]

\* what the transport raises for a request that got no response
TransportError(site) == Exc(site, <<"Connection", "refused">>)
\* response.json() on a body that is no JSON
JSONDecodeError(site) == Exc(site, <<"Expecting", "value">>)
\* x.get(...) on an x that has no get: a list, or None
AttributeError(site) ==
    Exc(site, <<"object", "has", "no", "attribute", "'get'">>)

----------------------------------------------------------------------------
(* _get_headers_sync / _get_headers_async *)

HeadersOk(h) == [ok |-> TRUE, headers |-> h, exc |-> NoException]
HeadersRaise(e) == [ok |-> FALSE, headers |-> NoHeaders, exc |-> e]

\* every way one call of the credential resolver can end
GetHeadersOutcomes ==
    IF Truthy(api_key)
    THEN { HeadersOk(ApiKeyHeaders(api_key[1])) }
    ELSE IF ~identity
    THEN { HeadersRaise(Exc("get_headers",
                            <<"azure-identity", "package", "is", "required">>)) }
    ELSE { HeadersOk(BearerHeaders(t)) : t \in Tokens }
         \cup { HeadersRaise(Exc("get_token", <<"authentication", "failed">>)) }

----------------------------------------------------------------------------
(* _poll_job_status_sync / _poll_job_status_async *)

status_url(id) ==
    <<endpoint, "/", path, "/", Format(id)>> \o params

\* (mutant) the deadline itself still counts as before it
BeforeDeadlineInclusive == now - start_time <= timeout

\* the loop condition: time.time() - start_time < timeout
BeforeDeadline == now - start_time < timeout

JobFailedMark == <<"Job", "failed">>
JobCancelledMark == <<"Job", "cancelled">>
JobExpiredMark == <<"Job", "expired">>

\* job_data.get('error', {}).get('message', 'Unknown error'): the message,
\* or the AttributeError of None.get
ErrorMessage(data) ==
    IF data.error.kind = "null"
    THEN [ok |-> FALSE, text |-> <<>>]
    ELSE IF data.error.kind = "dict" /\ data.error.has_message
    THEN [ok |-> TRUE, text |-> data.error.message]
    ELSE [ok |-> TRUE, text |-> <<"Unknown", "error">>]

Outcome(kind, e) == [kind |-> kind, exc |-> e]

\* (mutant) the status compared with a misspelt word
SucceededMisspelt(status) == status = Str("success")

\* status == 'succeeded'
Succeeded(status) == status = Str("succeeded")

\* The body of the try block for one response: "return" the job, "raise" an
\* exception into the except clause, or "sleep" and go round again.
TryBody(resp) ==
    IF resp.kind = "neterr"
    THEN Outcome("raise", TransportError("poll_get"))
    ELSE IF resp.code # 200
    THEN Outcome("raise",
                 Exc("poll_status",
                     <<"Failed", "to", "get", "job", "status", ":",
                       ToString(resp.code), "-">> \o resp.body))
    ELSE IF resp.json = "invalid"
    THEN Outcome("raise", JSONDecodeError("poll_json"))
    ELSE IF resp.json # "dict"
    THEN Outcome("raise", AttributeError("poll_json"))
    ELSE IF Succeeded(resp.data.status)
    THEN Outcome("return", NoException)
    ELSE IF resp.data.status = Str("failed")
    THEN IF ErrorMessage(resp.data).ok
         THEN Outcome("raise",
                      Exc("poll_failed",
                          <<"Job", "failed", ":">> \o ErrorMessage(resp.data).text))
         ELSE Outcome("raise", AttributeError("poll_error"))
    ELSE IF resp.data.status \in {Str("cancelled"), Str("expired")}
    THEN Outcome("raise", Exc("poll_terminal", <<"Job", Format(resp.data.status)>>))
    ELSE Outcome("sleep", NoException)

\* (mutant) the except clause knows 'failed' only
ReraisedFailedOnly(e) == Contains(e.msg, JobFailedMark)

\* The except clause: whether the exception is raised again (TRUE) or logged
\* and retried after a sleep (FALSE).
Reraised(e) ==
    \/ Contains(e.msg, JobFailedMark)
    \/ Contains(e.msg, JobCancelledMark)
    \/ Contains(e.msg, JobExpiredMark)

\* One iteration of the loop on a response: "return", "raise" (out of the
\* poller), "sleep" (line 128) or "retry" (the sleep of line 134).
Iteration(resp) ==
    IF TryBody(resp).kind # "raise" THEN TryBody(resp)
    ELSE IF Reraised(TryBody(resp).exc) THEN TryBody(resp)
    ELSE Outcome("retry", TryBody(resp).exc)

PollTimeoutError ==
    Exc("poll_timeout",
        <<"Job", "polling", "timeout", "after", ToString(timeout), "seconds">>)

----------------------------------------------------------------------------
(* Requests, results *)

\* (mutant) the request is sent without the headers
RequestNoHeaders(kind, url, h) ==
    [kind |-> kind, url |-> url, headers |-> NoHeaders, at |-> now]

Request(kind, url, h) == [kind |-> kind, url |-> url, headers |-> h, at |-> now]

NoResult == [kind |-> "none", stage |-> "none", exc |-> NoException,
             bytes |-> ""]
Raised(stage, e) == [NoResult EXCEPT !.kind = "raised", !.stage = stage, !.exc = e]
ReturnedBytes(b) == [NoResult EXCEPT !.kind = "returned", !.stage = "download",
                                     !.bytes = b]
ReturnedJob == [NoResult EXCEPT !.kind = "returned", !.stage = "poll"]

----------------------------------------------------------------------------
(* The image clients: methods, arguments, files, answers *)

ImageMethods ==
    {"generate_image_sync", "generate_image_async", "generate_image",
     "edit_image_sync", "edit_image_async", "edit_image",
     "flux2edit_image_async"}

\* the methods each class defines
MethodsOf(c) ==
    IF c = "GptImageClient"
    THEN {"generate_image_sync", "generate_image_async",
          "edit_image_sync", "edit_image_async"}
    ELSE IF c = "AzureOpenAIImageClient"
    THEN {"generate_image", "edit_image"}
    ELSE IF c = "FoundryGptImageClient"
    THEN {"generate_image_sync", "generate_image_async",
          "edit_image_sync", "edit_image_async", "flux2edit_image_async"}
    ELSE {}

ModeOf(method) ==
    IF method \in {"generate_image_sync", "edit_image_sync"}
    THEN "sync" ELSE "async"

\* the paths open(path, "rb") finds; any other path raises FileNotFoundError
ExistingFiles == {"image.png", "mask.png", "extra.png"}
Exists(p) == p \in ExistingFiles

\* flux2edit_image_async takes at most this many images
MaxFluxImages == 8
TooManyImages == [i \in 1..(MaxFluxImages + 1) |-> "image.png"]

\* the arguments of an image method; a list argument left out reads as <<>>
NoCall == [output_file |-> None, image_path |-> "", mask_path |-> None,
           additional_images |-> <<>>, images |-> <<>>]
CallArgs(method) ==
    IF method \in {"generate_image_sync", "generate_image_async",
                   "generate_image"}
    THEN { [NoCall EXCEPT !.output_file = o] : o \in {None, Str("out.png")} }
    ELSE IF method = "flux2edit_image_async"
    THEN { [NoCall EXCEPT !.output_file = o, !.images = i] :
             o \in {None, Str("out.png")},
             i \in {<<>>, <<"image.png">>, <<"nofile.png">>, TooManyImages} }
    ELSE { [NoCall EXCEPT !.output_file = o, !.image_path = p,
                          !.mask_path = m, !.additional_images = a] :
             o \in {None, Str("out.png")},
             p \in {"image.png", "nofile.png"},
             m \in {None, Str("mask.png"), Str("nofile.png")},
             a \in {<<>>, <<"extra.png">>, <<"nofile.png">>} }

\* a file handle: the form field it is attached as, and whether it is closed
Handle(field, p) == [field |-> field, path |-> p, closed |-> FALSE]
Closed(h) == [h EXCEPT !.closed = TRUE]
CloseAll(hs) == [i \in 1..Len(hs) |-> Closed(hs[i])]
AnyClosed(hs) == \E i \in 1..Len(hs) : hs[i].closed

\* base64.b64decode: the bytes a base64 text stands for, or binascii.Error
b64decode(text) ==
    CASE text = "QUJD" -> [ok |-> TRUE, bytes |-> "ABC"]
      [] text = "WFla" -> [ok |-> TRUE, bytes |-> "XYZ"]
      [] OTHER -> [ok |-> FALSE, bytes |-> ""]

\* one element of the "data" list of an image answer; an absent key is None
Item(b64_json, base64) == [b64_json |-> b64_json, base64 |-> base64]
\* the JSON object of an image answer: the "data" key absent, or a list
ImageJson(has_data, items) == [has_data |-> has_data, items |-> items]

ImageDatas ==
    { ImageJson(FALSE, <<>>), ImageJson(TRUE, <<>>) }
    \cup { ImageJson(TRUE, << Item(Str(t), None) >>) : t \in {"QUJD", "QUJ"} }
    \cup { ImageJson(TRUE, << Item(Str("WFla"), None), Item(Str("QUJD"), None) >>),
           ImageJson(TRUE, << Item(None, Str("WFla")) >>),
           ImageJson(TRUE, << Item(None, None) >>) }

ImageResponses ==
    { NetworkError }
    \cup { HttpError(c, <<"Internal", "error">>) : c \in {400, 500} }
    \cup { HttpJson(500, ImageJson(TRUE, << Item(Str("QUJD"), None) >>)) }
    \cup { HttpOther(200, "invalid") }
    \cup { HttpJson(200, d) : d \in ImageDatas }

----------------------------------------------------------------------------
(* The state after construction, at the moment the caller invokes a method *)

TypeOK ==
    /\ mode \in {"sync", "async"}
    /\ cls \in Classes
    /\ entry \in {"generate_video", "poll", "none"} \cup ImageMethods
    /\ pc \in {"init", "init_failed", "poll_args", "img_idle", "img_open",
               "img_post", "img_wait", "gen_headers", "gen_post", "gen_post_wait", "poll_start",
               "poll_loop", "poll_wait", "poll_sleep", "gen_extract",
               "dl_headers", "dl_get", "dl_wait", "done"}
    /\ now \in Nat
    /\ start_time \in Nat

\* Before construction: the class, the arguments and environment __init__
\* will read, and for a SoraClient the method the caller invokes afterwards.
Init ==
    /\ cls \in Classes
    /\ args \in ConstructorArgs(cls)
    /\ identity \in BOOLEAN
    /\ image_model \in (IF cls = "FoundryGptImageClient" THEN ImageModels
                        ELSE {"GPT_IMAGE"})
    /\ IF cls = "SoraClient"
       THEN /\ mode \in {"sync", "async"}
            /\ \/ /\ entry = "generate_video"
                  /\ timeout \in Timeouts
                  /\ poll_interval = DefaultPollInterval
                  /\ job_id = None
               \/ /\ entry = "poll"
                  /\ timeout \in 0..MaxDirectTimeout
                  /\ poll_interval \in 1..MaxDirectPollInterval
                  /\ job_id \in { Str(j) : j \in JobIds }
       ELSE /\ mode = "sync"
            /\ entry = "none"
            /\ timeout = 0
            /\ poll_interval = DefaultPollInterval
            /\ job_id = None
    /\ pc = "init"
    /\ api_key = None
    /\ headers = NoHeaders
    /\ call = NoCall
    /\ opened_files = <<>>
    /\ posted = <<>>
    /\ written = <<>>
    /\ ops = 0
    /\ calls = <<>>
    /\ jobs = <<>>
    /\ now = 0
    /\ start_time = 0
    /\ requests = <<>>
    /\ sleeps = <<>>
    /\ response = NoResponse
    /\ job_data = NoJson
    /\ video_url = <<>>
    /\ dl_headers = NoHeaders
    /\ result = NoResult
    /\ getHeadersCalls = 0

----------------------------------------------------------------------------
(* SoraClient.__init__ *)

\* endpoint or os.environ.get("SORA_ENDPOINT_URL", "")
ResolvedEndpoint ==
    IF args.endpoint # <<>> THEN args.endpoint ELSE args.env_endpoint

\* api_key or os.environ.get(...)
ResolvedApiKey ==
    IF Truthy(args.api_key) THEN args.api_key ELSE args.env_api_key

\* self.endpoint.rstrip('/')
RECURSIVE RStripSlash(_)
RStripSlash(url) ==
    IF url # <<>> /\ url[Len(url)] = "/"
    THEN RStripSlash(SubSeq(url, 1, Len(url) - 1))
    ELSE url

\* (mutant) the constructor does not look for an authentication method
AuthMissingUnchecked(key) == FALSE

\* not self.api_key and (DefaultAzureCredential is None)
AuthMissing(key) == ~Truthy(key) /\ ~identity

\* the constructor raises: no instance exists
ConstructionFails(e) ==
    /\ pc' = "init_failed"
    /\ result' = Raised("init", e)
    /\ api_key' = api_key

ConstructSora ==
    /\ pc = "init"
    /\ cls = "SoraClient"
    /\ args' = NoArgs
    /\ IF ResolvedEndpoint = <<>>
       THEN ConstructionFails(Exc("init_endpoint",
                <<"Endpoint", "must", "be", "provided", "or", "set", "in",
                  "SORA_ENDPOINT_URL", "environment", "variable">>))
       ELSE IF AuthMissing(ResolvedApiKey)
       THEN ConstructionFails(Exc("init_auth",
                <<"Either", "api_key", "must", "be", "provided", "or",
                  "azure-identity", "must", "be", "installed">>))
       ELSE /\ RStripSlash(ResolvedEndpoint) = <<endpoint>>
            /\ api_key' = ResolvedApiKey
            /\ pc' = IF entry = "generate_video" THEN "gen_headers" ELSE "poll_args"
            /\ result' = result
    /\ UNCHANGED <<cls, image_vars, calls, jobs, mode, entry, identity, timeout,
                   poll_interval, now, start_time, headers, job_id, requests,
                   sleeps, response, job_data, video_url, dl_headers,
                   getHeadersCalls>>

\* A caller of _poll_job_status_* passes it a job id and the headers a
\* successful _get_headers_* gave it.
CallPoller ==
    /\ pc = "poll_args"
    /\ headers' \in { o.headers : o \in { x \in GetHeadersOutcomes : x.ok } }
    /\ pc' = "poll_start"
    /\ UNCHANGED <<cls, args, image_vars, calls, jobs, mode, entry, api_key, identity,
                   timeout, poll_interval, now, start_time, job_id, requests,
                   sleeps, response, job_data, video_url, dl_headers, result,
                   getHeadersCalls>>

----------------------------------------------------------------------------
(* generate_video_sync / generate_video_async: credentials and submission *)

\* (mutant) a failed submission is sent again
PropagateOrResubmit(stage, e) ==
    IF stage = "submit"
    THEN pc' = "gen_post" /\ result' = result
    ELSE pc' = "done" /\ result' = Raised(stage, e)

\* An exception raised at `stage` leaves the call: generate_video's except
\* clause logs it and raises it again, to the caller.
Propagate(stage, e) ==
    /\ pc' = "done"
    /\ result' = Raised(stage, e)

\* headers = self._get_headers_sync()
GenHeaders ==
    /\ pc = "gen_headers"
    /\ getHeadersCalls' = getHeadersCalls + 1
    /\ \E o \in GetHeadersOutcomes :
         IF o.ok
         THEN /\ headers' = o.headers
              /\ pc' = "gen_post"
              /\ result' = result
         ELSE /\ headers' = headers
              /\ Propagate("headers", o.exc)
    /\ UNCHANGED <<cls, args, image_vars, calls, jobs, mode, entry, api_key, identity, timeout, poll_interval, now,
                   start_time, job_id, requests, sleeps, response, job_data,
                   video_url, dl_headers>>

\* client.post(self.constructed_url, headers=headers, json=body)
SubmitSend ==
    /\ pc = "gen_post"
    /\ requests' = Append(requests, Request("POST", constructed_url, headers))
    /\ pc' = "gen_post_wait"
    /\ UNCHANGED <<cls, args, image_vars, calls, jobs, mode, entry, api_key, identity, timeout, poll_interval, now,
                   start_time, headers, job_id, sleeps, response, job_data,
                   video_url, dl_headers, result, getHeadersCalls>>

\* (mutant) every 2xx status is taken for success
SubmitAccepted2xx(code) == code \in 200..299

\* the status the submission takes for success
SubmitAccepted(code) == code = 201

SubmitOk(id) == [ok |-> TRUE, job_id |-> id, exc |-> NoException]
SubmitRaise(e) == [ok |-> FALSE, job_id |-> None, exc |-> e]

\* what the submission makes of the response to the POST
SubmitOutcome(resp) ==
    IF resp.kind = "neterr"
    THEN SubmitRaise(TransportError("submit_post"))
    ELSE IF ~SubmitAccepted(resp.code)
    THEN SubmitRaise(Exc("submit_status",
                         <<"Failed", "to", "create", "video", "job", ":",
                           ToString(resp.code), "-">> \o resp.body))
    ELSE IF resp.json = "invalid"
    THEN SubmitRaise(JSONDecodeError("submit_json"))
    ELSE IF resp.json # "dict"
    THEN SubmitRaise(AttributeError("submit_json"))
    ELSE IF ~Truthy(resp.data.id)
    THEN SubmitRaise(Exc("submit_no_id",
                         <<"No", "job", "ID", "returned", "from", "video",
                           "generation", "API">>))
    ELSE SubmitOk(resp.data.id)

SubmitReceive ==
    /\ pc = "gen_post_wait"
    /\ \E resp \in SubmitResponses, d \in {0, 1} :
         /\ now' = now + d
         /\ response' = resp
         /\ IF SubmitOutcome(resp).ok
            THEN /\ job_id' = SubmitOutcome(resp).job_id
                 /\ pc' = "poll_start"
                 /\ result' = result
            ELSE /\ job_id' = job_id
                 /\ Propagate("submit", SubmitOutcome(resp).exc)
    /\ UNCHANGED <<cls, args, image_vars, calls, jobs, mode, entry, api_key, identity, timeout, poll_interval,
                   start_time, headers, requests, sleeps, job_data, video_url,
                   dl_headers, getHeadersCalls>>

----------------------------------------------------------------------------
(* the poll loop *)

\* start_time = time.time()
PollStart ==
    /\ pc = "poll_start"
    /\ start_time' = now
    /\ pc' = "poll_loop"
    /\ response' = NoResponse
    /\ UNCHANGED <<cls, args, image_vars, calls, jobs, mode, entry, api_key, identity, timeout, poll_interval, now,
                   headers, job_id, requests, sleeps, job_data, video_url,
                   dl_headers, result, getHeadersCalls>>

\* the loop condition holds: client.get(status_url, headers=headers)
PollQuery ==
    /\ pc = "poll_loop"
    /\ BeforeDeadline
    /\ requests' = Append(requests, Request("GET_status", status_url(job_id), headers))
    /\ pc' = "poll_wait"
    /\ UNCHANGED <<cls, args, image_vars, calls, jobs, mode, entry, api_key, identity, timeout, poll_interval, now,
                   start_time, headers, job_id, sleeps, response, job_data,
                   video_url, dl_headers, result, getHeadersCalls>>

\* the loop condition fails: raise the timeout
PollTimeout ==
    /\ pc = "poll_loop"
    /\ ~BeforeDeadline
    /\ Propagate("poll", PollTimeoutError)
    /\ UNCHANGED <<cls, args, image_vars, calls, jobs, mode, entry, api_key, identity, timeout, poll_interval, now,
                   start_time, headers, job_id, requests, sleeps, response,
                   job_data, video_url, dl_headers, getHeadersCalls>>

\* the job_data the try block parsed out of a response, if it got that far
Parsed(resp) ==
    IF resp.kind = "http" /\ resp.code = 200 /\ resp.json = "dict"
    THEN resp.data ELSE NoJson

\* the response to a status query arrives, d after the query was sent
PollReceive ==
    /\ pc = "poll_wait"
    /\ \E resp \in StatusResponses, d \in QueryDurations :
         /\ now' = now + d
         /\ response' = resp
         /\ job_data' = Parsed(resp)
         /\ CASE Iteration(resp).kind = "return" ->
                   IF entry = "poll"
                   THEN pc' = "done" /\ result' = ReturnedJob
                   ELSE pc' = "gen_extract" /\ result' = result
              [] Iteration(resp).kind = "raise" ->
                   Propagate("poll", Iteration(resp).exc)
              [] OTHER ->
                   /\ pc' = "poll_sleep"
                   /\ result' = result
    /\ UNCHANGED <<cls, args, image_vars, calls, jobs, mode, entry, api_key, identity, timeout, poll_interval,
                   start_time, headers, job_id, requests, sleeps, video_url,
                   dl_headers, getHeadersCalls>>

\* (mutant) the except clause goes round again without its sleep
PollSleepSkippedOnRetry ==
    /\ pc = "poll_sleep"
    /\ sleeps' = IF Iteration(response).kind = "retry" THEN sleeps
                 ELSE Append(sleeps, [at |-> now, cause |-> "sleep"])
    /\ now' = IF Iteration(response).kind = "retry" THEN now
              ELSE now + poll_interval
    /\ response' = NoResponse
    /\ job_data' = NoJson
    /\ pc' = "poll_loop"
    /\ UNCHANGED <<cls, args, image_vars, calls, jobs, mode, entry, api_key, identity, timeout, poll_interval,
                   start_time, headers, job_id, requests, video_url, dl_headers,
                   result, getHeadersCalls>>

\* time.sleep(poll_interval) / await asyncio.sleep(poll_interval)
PollSleep ==
    /\ pc = "poll_sleep"
    /\ sleeps' = Append(sleeps, [at |-> now, cause |-> Iteration(response).kind])
    /\ now' = now + poll_interval
    /\ response' = NoResponse
    /\ job_data' = NoJson
    /\ pc' = "poll_loop"
    /\ UNCHANGED <<cls, args, image_vars, calls, jobs, mode, entry, api_key, identity, timeout, poll_interval,
                   start_time, headers, job_id, requests, video_url, dl_headers,
                   result, getHeadersCalls>>

----------------------------------------------------------------------------
(* generate_video: the download *)

content_url(generation_id) ==
    <<endpoint, "/", videopath, "/", Format(generation_id), "/content/video">>
    \o params

\* (mutant) the default for a missing key is a list of one empty descriptor
VideosDefaultPlaceholder(job) ==
    IF job.generations.present THEN job.generations.list ELSE << [id |-> None] >>

\* completed_job.get('generations', [])
Videos(job) == IF job.generations.present THEN job.generations.list ELSE <<>>

\* (mutant) the last generation is taken
ChosenLast(videos) == videos[Len(videos)]

\* the generation the download URL is built from
Chosen(videos) == videos[1]

Extract ==
    /\ pc = "gen_extract"
    /\ IF Videos(job_data) = <<>>
       THEN /\ Propagate("extract",
                          Exc("no_videos", <<"No", "videos", "found", "in",
                                             "completed", "job">>))
            /\ video_url' = video_url
       ELSE IF content_url(Chosen(Videos(job_data)).id) = <<>>
       THEN /\ Propagate("extract",
                          Exc("no_video_url", <<"No", "video", "URL", "found",
                                                "in", "completed", "job">>))
            /\ video_url' = video_url
       ELSE /\ video_url' = content_url(Chosen(Videos(job_data)).id)
            /\ pc' = "dl_headers"
            /\ result' = result
    /\ UNCHANGED <<cls, args, image_vars, calls, jobs, mode, entry, api_key, identity, timeout, poll_interval, now,
                   start_time, headers, job_id, requests, sleeps, response,
                   job_data, dl_headers, getHeadersCalls>>

\* _download_video_*: headers = self._get_headers_sync()
DownloadHeaders ==
    /\ pc = "dl_headers"
    /\ getHeadersCalls' = getHeadersCalls + 1
    /\ \E o \in GetHeadersOutcomes :
         IF o.ok
         THEN /\ dl_headers' = o.headers
              /\ pc' = "dl_get"
              /\ result' = result
         ELSE /\ dl_headers' = dl_headers
              /\ Propagate("download", o.exc)
    /\ UNCHANGED <<cls, args, image_vars, calls, jobs, mode, entry, api_key, identity, timeout, poll_interval, now,
                   start_time, headers, job_id, requests, sleeps, response,
                   job_data, video_url>>

\* client.get(video_url, headers=headers)
DownloadSend ==
    /\ pc = "dl_get"
    /\ requests' = Append(requests, Request("GET_content", video_url, dl_headers))
    /\ pc' = "dl_wait"
    /\ UNCHANGED <<cls, args, image_vars, calls, jobs, mode, entry, api_key, identity, timeout, poll_interval, now,
                   start_time, headers, job_id, sleeps, response, job_data,
                   video_url, dl_headers, result, getHeadersCalls>>

\* what the downloader makes of the response: the bytes, or an exception
DownloadOk(b) == [ok |-> TRUE, bytes |-> b, exc |-> NoException]
DownloadRaise(e) == [ok |-> FALSE, bytes |-> "", exc |-> e]

DownloadOutcome(resp) ==
    IF resp.kind = "neterr"
    THEN DownloadRaise(TransportError("download_get"))
    ELSE IF resp.code # 200
    THEN DownloadRaise(Exc("download_status",
                           <<"Failed", "to", "download", "video", ":",
                             ToString(resp.code), "-">> \o resp.body))
    ELSE DownloadOk(resp.content)

DownloadReceive ==
    /\ pc = "dl_wait"
    /\ \E resp \in DownloadResponses, d \in {0, 1} :
         /\ now' = now + d
         /\ response' = resp
         /\ IF DownloadOutcome(resp).ok
            THEN /\ pc' = "done"
                 /\ result' = ReturnedBytes(DownloadOutcome(resp).bytes)
            ELSE Propagate("download", DownloadOutcome(resp).exc)
    /\ UNCHANGED <<cls, args, image_vars, calls, jobs, mode, entry, api_key, identity, timeout, poll_interval,
                   start_time, headers, job_id, requests, sleeps, job_data,
                   video_url, dl_headers, getHeadersCalls>>

----------------------------------------------------------------------------
(* The cooperatively scheduled variants: _get_headers_async,            *)
(* _poll_job_status_async, _download_video_async, generate_video_async  *)

\* the name the import block binds for the asynchronous credential: it is
\* bound together with the synchronous one, or both are None
DefaultAzureCredentialAsync == identity

\* every way one call of _get_headers_async can end
GetHeadersOutcomesAsync ==
    IF Truthy(api_key)
    THEN { HeadersOk(ApiKeyHeaders(api_key[1])) }
    ELSE IF ~DefaultAzureCredentialAsync
    THEN { HeadersRaise(Exc("get_headers",
                            <<"azure-identity", "package", "is", "required">>)) }
    ELSE { HeadersOk(BearerHeaders(t)) : t \in Tokens }
         \cup { HeadersRaise(Exc("get_token", <<"authentication", "failed">>)) }

\* status_url of _poll_job_status_async
status_url_async(id) ==
    <<endpoint, "/", path, "/", Format(id)>> \o params

\* (mutant) the asynchronous loop tests the deadline inclusively
BeforeDeadlineAsyncInclusive(start, limit) == now - start <= limit

\* the loop condition: time.time() - start_time < timeout
BeforeDeadlineAsync(start, limit) == now - start < limit

\* job_data.get('error', {}).get('message', 'Unknown error')
ErrorMessageAsync(data) ==
    IF data.error.kind = "null"
    THEN [ok |-> FALSE, text |-> <<>>]
    ELSE IF data.error.kind = "dict" /\ data.error.has_message
    THEN [ok |-> TRUE, text |-> data.error.message]
    ELSE [ok |-> TRUE, text |-> <<"Unknown", "error">>]

\* status == 'succeeded'
SucceededAsync(status) == status = Str("succeeded")

\* the try block of _poll_job_status_async for one response
TryBodyAsync(resp) ==
    IF resp.kind = "neterr"
    THEN Outcome("raise", TransportError("poll_get"))
    ELSE IF resp.code # 200
    THEN Outcome("raise",
                 Exc("poll_status",
                     <<"Failed", "to", "get", "job", "status", ":",
                       ToString(resp.code), "-">> \o resp.body))
    ELSE IF resp.json = "invalid"
    THEN Outcome("raise", JSONDecodeError("poll_json"))
    ELSE IF resp.json # "dict"
    THEN Outcome("raise", AttributeError("poll_json"))
    ELSE IF SucceededAsync(resp.data.status)
    THEN Outcome("return", NoException)
    ELSE IF resp.data.status = Str("failed")
    THEN IF ErrorMessageAsync(resp.data).ok
         THEN Outcome("raise",
                      Exc("poll_failed",
                          <<"Job", "failed", ":">> \o ErrorMessageAsync(resp.data).text))
         ELSE Outcome("raise", AttributeError("poll_error"))
    ELSE IF resp.data.status \in {Str("cancelled"), Str("expired")}
    THEN Outcome("raise", Exc("poll_terminal", <<"Job", Format(resp.data.status)>>))
    ELSE Outcome("sleep", NoException)

\* the except clause of _poll_job_status_async: raise again, or retry
ReraisedAsync(e) ==
    \/ Contains(e.msg, JobFailedMark)
    \/ Contains(e.msg, JobCancelledMark)
    \/ Contains(e.msg, JobExpiredMark)

\* one iteration of the loop of _poll_job_status_async
IterationAsync(resp) ==
    IF TryBodyAsync(resp).kind # "raise" THEN TryBodyAsync(resp)
    ELSE IF ReraisedAsync(TryBodyAsync(resp).exc) THEN TryBodyAsync(resp)
    ELSE Outcome("retry", TryBodyAsync(resp).exc)

\* raise Exception(f"Job polling timeout after {timeout} seconds")
PollTimeoutErrorAsync(limit) ==
    Exc("poll_timeout",
        <<"Job", "polling", "timeout", "after", ToString(limit), "seconds">>)

\* generate_video_async's except clause logs the exception and raises it again
PropagateAsync(stage, e) ==
    /\ pc' = "done"
    /\ result' = Raised(stage, e)

\* headers = await self._get_headers_async()
GenHeadersAsync ==
    /\ pc = "gen_headers"
    /\ getHeadersCalls' = getHeadersCalls + 1
    /\ \E o \in GetHeadersOutcomesAsync :
         IF o.ok
         THEN /\ headers' = o.headers
              /\ pc' = "gen_post"
              /\ result' = result
         ELSE /\ headers' = headers
              /\ PropagateAsync("headers", o.exc)
    /\ UNCHANGED <<cls, args, image_vars, calls, jobs, mode, entry, api_key, identity, timeout, poll_interval, now,
                   start_time, job_id, requests, sleeps, response, job_data,
                   video_url, dl_headers>>

\* await client.post(self.constructed_url, headers=headers, json=body)
SubmitSendAsync ==
    /\ pc = "gen_post"
    /\ requests' = Append(requests, Request("POST", constructed_url, headers))
    /\ pc' = "gen_post_wait"
    /\ UNCHANGED <<cls, args, image_vars, calls, jobs, mode, entry, api_key, identity, timeout, poll_interval, now,
                   start_time, headers, job_id, sleeps, response, job_data,
                   video_url, dl_headers, result, getHeadersCalls>>

\* the status generate_video_async takes for success
SubmitAcceptedAsync(code) == code = 201

\* what generate_video_async makes of the response to the POST
SubmitOutcomeAsync(resp) ==
    IF resp.kind = "neterr"
    THEN SubmitRaise(TransportError("submit_post"))
    ELSE IF ~SubmitAcceptedAsync(resp.code)
    THEN SubmitRaise(Exc("submit_status",
                         <<"Failed", "to", "create", "video", "job", ":",
                           ToString(resp.code), "-">> \o resp.body))
    ELSE IF resp.json = "invalid"
    THEN SubmitRaise(JSONDecodeError("submit_json"))
    ELSE IF resp.json # "dict"
    THEN SubmitRaise(AttributeError("submit_json"))
    ELSE IF ~Truthy(resp.data.id)
    THEN SubmitRaise(Exc("submit_no_id",
                         <<"No", "job", "ID", "returned", "from", "video",
                           "generation", "API">>))
    ELSE SubmitOk(resp.data.id)

\* the awaited POST response arrives
SubmitReceiveAsync ==
    /\ pc = "gen_post_wait"
    /\ \E resp \in SubmitResponses, d \in {0, 1} :
         /\ now' = now + d
         /\ response' = resp
         /\ IF SubmitOutcomeAsync(resp).ok
            THEN /\ job_id' = SubmitOutcomeAsync(resp).job_id
                 /\ pc' = "poll_start"
                 /\ result' = result
            ELSE /\ job_id' = job_id
                 /\ PropagateAsync("submit", SubmitOutcomeAsync(resp).exc)
    /\ UNCHANGED <<cls, args, image_vars, calls, jobs, mode, entry, api_key, identity, timeout, poll_interval,
                   start_time, headers, requests, sleeps, job_data, video_url,
                   dl_headers, getHeadersCalls>>

\* start_time = time.time()
PollStartAsync ==
    /\ pc = "poll_start"
    /\ start_time' = now
    /\ pc' = "poll_loop"
    /\ response' = NoResponse
    /\ UNCHANGED <<cls, args, image_vars, calls, jobs, mode, entry, api_key, identity, timeout, poll_interval, now,
                   headers, job_id, requests, sleeps, job_data, video_url,
                   dl_headers, result, getHeadersCalls>>

\* the loop condition holds: await client.get(status_url, headers=headers)
PollQueryAsync ==
    /\ pc = "poll_loop"
    /\ BeforeDeadlineAsync(start_time, timeout)
    /\ requests' = Append(requests, Request("GET_status", status_url_async(job_id), headers))
    /\ pc' = "poll_wait"
    /\ UNCHANGED <<cls, args, image_vars, calls, jobs, mode, entry, api_key, identity, timeout, poll_interval, now,
                   start_time, headers, job_id, sleeps, response, job_data,
                   video_url, dl_headers, result, getHeadersCalls>>

\* the loop condition fails: raise the timeout
PollTimeoutAsync ==
    /\ pc = "poll_loop"
    /\ ~BeforeDeadlineAsync(start_time, timeout)
    /\ PropagateAsync("poll", PollTimeoutErrorAsync(timeout))
    /\ UNCHANGED <<cls, args, image_vars, calls, jobs, mode, entry, api_key, identity, timeout, poll_interval, now,
                   start_time, headers, job_id, requests, sleeps, response,
                   job_data, video_url, dl_headers, getHeadersCalls>>

\* job_data = response.json()
ParsedAsync(resp) ==
    IF resp.kind = "http" /\ resp.code = 200 /\ resp.json = "dict"
    THEN resp.data ELSE NoJson

\* the awaited response to a status query arrives
PollReceiveAsync ==
    /\ pc = "poll_wait"
    /\ \E resp \in StatusResponses, d \in QueryDurations :
         /\ now' = now + d
         /\ response' = resp
         /\ job_data' = ParsedAsync(resp)
         /\ CASE IterationAsync(resp).kind = "return" ->
                   IF entry = "poll"
                   THEN pc' = "done" /\ result' = ReturnedJob
                   ELSE pc' = "gen_extract" /\ result' = result
              [] IterationAsync(resp).kind = "raise" ->
                   PropagateAsync("poll", IterationAsync(resp).exc)
              [] OTHER ->
                   /\ pc' = "poll_sleep"
                   /\ result' = result
    /\ UNCHANGED <<cls, args, image_vars, calls, jobs, mode, entry, api_key, identity, timeout, poll_interval,
                   start_time, headers, job_id, requests, sleeps, video_url,
                   dl_headers, getHeadersCalls>>

\* await asyncio.sleep(poll_interval)
PollSleepAsync ==
    /\ pc = "poll_sleep"
    /\ sleeps' = Append(sleeps, [at |-> now, cause |-> IterationAsync(response).kind])
    /\ now' = now + poll_interval
    /\ response' = NoResponse
    /\ job_data' = NoJson
    /\ pc' = "poll_loop"
    /\ UNCHANGED <<cls, args, image_vars, calls, jobs, mode, entry, api_key, identity, timeout, poll_interval,
                   start_time, headers, job_id, requests, video_url, dl_headers,
                   result, getHeadersCalls>>

\* video_url of generate_video_async
content_url_async(generation_id) ==
    <<endpoint, "/", videopath, "/", Format(generation_id), "/content/video">>
    \o params

\* completed_job.get('generations', [])
VideosAsync(job) == IF job.generations.present THEN job.generations.list ELSE <<>>

\* videos[0]
ChosenAsync(videos) == videos[1]

\* generate_video_async: the video URL out of the completed job
ExtractAsync ==
    /\ pc = "gen_extract"
    /\ IF VideosAsync(job_data) = <<>>
       THEN /\ PropagateAsync("extract",
                          Exc("no_videos", <<"No", "videos", "found", "in",
                                             "completed", "job">>))
            /\ video_url' = video_url
       ELSE IF content_url_async(ChosenAsync(VideosAsync(job_data)).id) = <<>>
       THEN /\ PropagateAsync("extract",
                          Exc("no_video_url", <<"No", "video", "URL", "found",
                                                "in", "completed", "job">>))
            /\ video_url' = video_url
       ELSE /\ video_url' = content_url_async(ChosenAsync(VideosAsync(job_data)).id)
            /\ pc' = "dl_headers"
            /\ result' = result
    /\ UNCHANGED <<cls, args, image_vars, calls, jobs, mode, entry, api_key, identity, timeout, poll_interval, now,
                   start_time, headers, job_id, requests, sleeps, response,
                   job_data, dl_headers, getHeadersCalls>>

\* _download_video_async: headers = await self._get_headers_async()
DownloadHeadersAsync ==
    /\ pc = "dl_headers"
    /\ getHeadersCalls' = getHeadersCalls + 1
    /\ \E o \in GetHeadersOutcomesAsync :
         IF o.ok
         THEN /\ dl_headers' = o.headers
              /\ pc' = "dl_get"
              /\ result' = result
         ELSE /\ dl_headers' = dl_headers
              /\ PropagateAsync("download", o.exc)
    /\ UNCHANGED <<cls, args, image_vars, calls, jobs, mode, entry, api_key, identity, timeout, poll_interval, now,
                   start_time, headers, job_id, requests, sleeps, response,
                   job_data, video_url>>

\* await client.get(video_url, headers=headers)
DownloadSendAsync ==
    /\ pc = "dl_get"
    /\ requests' = Append(requests, Request("GET_content", video_url, dl_headers))
    /\ pc' = "dl_wait"
    /\ UNCHANGED <<cls, args, image_vars, calls, jobs, mode, entry, api_key, identity, timeout, poll_interval, now,
                   start_time, headers, job_id, sleeps, response, job_data,
                   video_url, dl_headers, result, getHeadersCalls>>

\* what _download_video_async makes of the response
DownloadOutcomeAsync(resp) ==
    IF resp.kind = "neterr"
    THEN DownloadRaise(TransportError("download_get"))
    ELSE IF resp.code # 200
    THEN DownloadRaise(Exc("download_status",
                           <<"Failed", "to", "download", "video", ":",
                             ToString(resp.code), "-">> \o resp.body))
    ELSE DownloadOk(resp.content)

\* the awaited download response arrives; generate_video_async returns
DownloadReceiveAsync ==
    /\ pc = "dl_wait"
    /\ \E resp \in DownloadResponses, d \in {0, 1} :
         /\ now' = now + d
         /\ response' = resp
         /\ IF DownloadOutcomeAsync(resp).ok
            THEN /\ pc' = "done"
                 /\ result' = ReturnedBytes(DownloadOutcomeAsync(resp).bytes)
            ELSE PropagateAsync("download", DownloadOutcomeAsync(resp).exc)
    /\ UNCHANGED <<cls, args, image_vars, calls, jobs, mode, entry, api_key, identity, timeout, poll_interval,
                   start_time, headers, job_id, requests, sleeps, job_data,
                   video_url, dl_headers, getHeadersCalls>>

----------------------------------------------------------------------------
(* The image clients: construction *)

\* not self.api_key
ImageKeyMissing(key) == ~Truthy(key)

\* __init__ of GptImageClient, AzureOpenAIImageClient, Foundry GptImageClient
ConstructImage ==
    /\ pc = "init"
    /\ cls \in ImageClasses
    /\ args' = NoArgs
    /\ IF ImageKeyMissing(ResolvedApiKey)
       THEN ConstructionFails(Exc("init_auth",
                <<"API", "key", "must", "be", "provided", "or", "set", "in",
                  "AZURE_API_KEY", "environment", "variable">>))
       ELSE /\ api_key' = ResolvedApiKey
            /\ pc' = "img_idle"
            /\ result' = result
    /\ UNCHANGED <<cls, image_vars, sora_vars, mode, entry, requests, response>>

\* the caller invokes a method of the instance
Invoke ==
    /\ pc = "img_idle"
    /\ ops < MaxOperations
    /\ ops' = ops + 1
    /\ \E m \in MethodsOf(cls) :
         /\ entry' = m
         /\ mode' = ModeOf(m)
         /\ call' \in CallArgs(m)
         /\ pc' = IF m \in {"generate_image_sync", "generate_image_async",
                            "generate_image"}
                  THEN "img_post" ELSE "img_open"
    /\ opened_files' = <<>>
    /\ posted' = <<>>
    /\ response' = NoResponse
    /\ result' = NoResult
    /\ UNCHANGED <<cls, args, image_model, written, sora_vars, api_key, requests>>

----------------------------------------------------------------------------
(* The image clients: attributes, URLs, headers *)

image_api_version == "2025-04-01-preview"
deployment_name ==
    IF cls = "FoundryGptImageClient" /\ image_model = "FLUX"
    THEN "FLUX.2-pro" ELSE "gpt-image-1"

\* model == self.ImageModel.FLUX and deployment_name == "FLUX.2-pro"
IsFlux2 == image_model = "FLUX" /\ deployment_name = "FLUX.2-pro"
midurl == IF IsFlux2 THEN "providers/blackforestlabs/v1/" ELSE "openai/deployments/"
endpointend == IF IsFlux2 THEN "flux-2-pro" ELSE deployment_name
foundry_api_version == IF IsFlux2 THEN "preview" ELSE image_api_version

\* the url of a method, for its api_verb
ImageUrl(api_verb) ==
    IF cls = "FoundryGptImageClient"
    THEN <<image_endpoint, midurl, endpointend, api_verb,
           "?api-version=", foundry_api_version>>
    ELSE <<image_endpoint, "/openai/deployments/", deployment_name, api_verb,
           "?api-version=", image_api_version>>

GenerationsVerb ==
    IF cls = "FoundryGptImageClient" /\ IsFlux2 THEN "" ELSE "/images/generations"

\* self.headers
SelfHeaders == ApiKeyHeaders(api_key[1])

\* headers = self.headers.copy(); del headers["Content-Type"]
WithoutContentType(h) == [h EXCEPT !.content_type = ""]

\* edit_image: headers = {"api-key": self.api_key}
AzureEditHeaders ==
    [auth |-> "api-key", value |-> api_key[1], content_type |-> ""]

\* flux2edit_image_async: Content-Type and "Authorization": f"Bearer {self.api_key}"
FluxHeaders == BearerHeaders(api_key[1])

----------------------------------------------------------------------------
(* The image clients: results *)

ReturnedImage(b) ==
    [NoResult EXCEPT !.kind = "returned_bytes", !.stage = "image", !.bytes = b]
ReturnedPath(p) ==
    [NoResult EXCEPT !.kind = "returned_path", !.stage = "image", !.bytes = p]
ReturnedNone ==
    [NoResult EXCEPT !.kind = "returned_none", !.stage = "image"]
ReturnedJson ==
    [NoResult EXCEPT !.kind = "returned_json", !.stage = "image"]

FileNotFoundError(p) ==
    Exc("open", <<"No", "such", "file", "or", "directory", ":", p>>)
\* reading a part whose file is closed
ClosedFileError ==
    Exc("closed_file", <<"I/O", "operation", "on", "closed", "file">>)
FailedStatus(what, resp) ==
    Exc("image_status",
        <<"Failed", "to", what, "image", ":", ToString(resp.code), "-">>
        \o resp.body)

ImageOk(b) == [ok |-> TRUE, bytes |-> b, exc |-> NoException]
ImageRaise(e) == [ok |-> FALSE, bytes |-> "", exc |-> e]

\* response.json(); response_data["data"][0]["b64_json"]; base64.b64decode
DecodeFirst(resp) ==
    IF resp.json # "dict"
    THEN ImageRaise(JSONDecodeError("image_json"))
    ELSE IF ~resp.data.has_data
    THEN ImageRaise(Exc("image_data", <<"'data'">>))
    ELSE IF resp.data.items = <<>>
    THEN ImageRaise(Exc("image_data", <<"list", "index", "out", "of", "range">>))
    ELSE IF resp.data.items[1].b64_json = None
    THEN ImageRaise(Exc("image_data", <<"'b64_json'">>))
    ELSE IF ~b64decode(resp.data.items[1].b64_json[1]).ok
    THEN ImageRaise(Exc("image_b64", <<"Incorrect", "padding">>))
    ELSE ImageOk(b64decode(resp.data.items[1].b64_json[1]).bytes)

\* (mutant) the image is written even when no output_file was given
DeliverAlwaysWrites(b) ==
    /\ written' = Append(written, [path |-> Format(call.output_file), bytes |-> b])
    /\ result' = IF Truthy(call.output_file)
                 THEN ReturnedPath(call.output_file[1]) ELSE ReturnedImage(b)

\* if output_file: write the bytes, return the path; else: return the bytes
Deliver(b) ==
    IF Truthy(call.output_file)
    THEN /\ written' = Append(written, [path |-> call.output_file[1], bytes |-> b])
         /\ result' = ReturnedPath(call.output_file[1])
    ELSE /\ written' = written
         /\ result' = ReturnedImage(b)

\* the method raises e to its caller
ImageRaises(e) ==
    /\ written' = written
    /\ result' = Raised("image", e)

----------------------------------------------------------------------------
(* generate_image_sync (GptImageClient, Foundry GptImageClient) *)

\* client.post(url, headers=self.headers, json=payload)
GenerateImageSyncPost ==
    /\ pc = "img_post"
    /\ entry = "generate_image_sync"
    /\ requests' = Append(requests,
                          Request("POST_generate", ImageUrl(GenerationsVerb),
                                  SelfHeaders))
    /\ pc' = "img_wait"
    /\ UNCHANGED <<cls, args, image_vars, sora_vars, mode, entry, api_key,
                   response, result>>

\* A status other than 200 is logged and nothing else; whatever is raised
\* inside the try block is logged and the method returns None.
GenerateImageSyncReceive ==
    /\ pc = "img_wait"
    /\ entry = "generate_image_sync"
    /\ \E resp \in ImageResponses :
         /\ response' = resp
         /\ IF resp.kind = "neterr"
            THEN /\ written' = written
                 /\ result' = ReturnedNone
            ELSE IF DecodeFirst(resp).ok
            THEN Deliver(DecodeFirst(resp).bytes)
            ELSE /\ written' = written
                 /\ result' = ReturnedNone
    /\ pc' = "img_idle"
    /\ UNCHANGED <<cls, args, image_model, call, opened_files, posted, ops,
                   sora_vars, mode, entry, api_key, requests>>

----------------------------------------------------------------------------
(* generate_image_async (GptImageClient, Foundry GptImageClient) *)

\* await client.post(url, headers=self.headers, json=payload)
GenerateImageAsyncPost ==
    /\ pc = "img_post"
    /\ entry = "generate_image_async"
    /\ requests' = Append(requests,
                          Request("POST_generate", ImageUrl(GenerationsVerb),
                                  SelfHeaders))
    /\ pc' = "img_wait"
    /\ UNCHANGED <<cls, args, image_vars, sora_vars, mode, entry, api_key,
                   response, result>>

\* what a raise-on-failure method makes of the response: the decoded bytes,
\* or the exception it raises
RaisingOutcome(what, resp) ==
    IF resp.kind = "neterr"
    THEN ImageRaise(TransportError("image_post"))
    ELSE IF resp.code # 200
    THEN ImageRaise(FailedStatus(what, resp))
    ELSE DecodeFirst(resp)

GenerateImageAsyncReceive ==
    /\ pc = "img_wait"
    /\ entry = "generate_image_async"
    /\ \E resp \in ImageResponses :
         /\ response' = resp
         /\ IF RaisingOutcome("generate", resp).ok
            THEN Deliver(RaisingOutcome("generate", resp).bytes)
            ELSE ImageRaises(RaisingOutcome("generate", resp).exc)
    /\ pc' = "img_idle"
    /\ UNCHANGED <<cls, args, image_model, call, opened_files, posted, ops,
                   sora_vars, mode, entry, api_key, requests>>

----------------------------------------------------------------------------
(* AzureOpenAIImageClient.generate_image *)

\* session.post(url, headers=self.headers, json=payload)
AzureGenerateImagePost ==
    /\ pc = "img_post"
    /\ entry = "generate_image"
    /\ requests' = Append(requests,
                          Request("POST_generate",
                                  ImageUrl("/images/generations"), SelfHeaders))
    /\ pc' = "img_wait"
    /\ UNCHANGED <<cls, args, image_vars, sora_vars, mode, entry, api_key,
                   response, result>>

AzureGenerateImageReceive ==
    /\ pc = "img_wait"
    /\ entry = "generate_image"
    /\ \E resp \in ImageResponses :
         /\ response' = resp
         /\ IF RaisingOutcome("generate", resp).ok
            THEN Deliver(RaisingOutcome("generate", resp).bytes)
            ELSE ImageRaises(RaisingOutcome("generate", resp).exc)
    /\ pc' = "img_idle"
    /\ UNCHANGED <<cls, args, image_model, call, opened_files, posted, ops,
                   sora_vars, mode, entry, api_key, requests>>

----------------------------------------------------------------------------
(* Opening the files of an edit *)

Part(field, p) == [field |-> field, path |-> p]

\* open the parts in order, up to the first path that does not exist
RECURSIVE OpenEach(_, _)
OpenEach(parts, acc) ==
    IF parts = <<>>
    THEN [ok |-> TRUE, files |-> acc, missing |-> ""]
    ELSE IF ~Exists(Head(parts).path)
    THEN [ok |-> FALSE, files |-> acc, missing |-> Head(parts).path]
    ELSE OpenEach(Tail(parts),
                  Append(acc, Handle(Head(parts).field, Head(parts).path)))

AdditionalParts(field) ==
    [i \in 1..Len(call.additional_images) |->
        Part(field, call.additional_images[i])]

----------------------------------------------------------------------------
(* edit_image_sync (GptImageClient, Foundry GptImageClient) *)

\* with open(image_path) as image_file: files = {"image": image_file};
\* the mask is opened, put into files, and closed by its own with block
EditImageSyncOpen ==
    /\ pc = "img_open"
    /\ entry = "edit_image_sync"
    /\ IF ~Exists(call.image_path)
       THEN /\ opened_files' = <<>>
            /\ pc' = "img_idle"
            /\ ImageRaises(FileNotFoundError(call.image_path))
       ELSE IF ~Truthy(call.mask_path)
       THEN /\ opened_files' = << Handle("image", call.image_path) >>
            /\ pc' = "img_post"
            /\ UNCHANGED <<written, result>>
       ELSE IF ~Exists(call.mask_path[1])
       THEN /\ opened_files' = << Closed(Handle("image", call.image_path)) >>
            /\ pc' = "img_idle"
            /\ ImageRaises(FileNotFoundError(call.mask_path[1]))
       ELSE /\ opened_files' = << Handle("image", call.image_path),
                                  Closed(Handle("mask", call.mask_path[1])) >>
            /\ pc' = "img_post"
            /\ UNCHANGED <<written, result>>
    /\ UNCHANGED <<cls, args, image_model, call, posted, ops, sora_vars, mode,
                   entry, api_key, requests, response>>

\* client.post(url, headers=self.headers, files=files)
EditImageSyncPost ==
    /\ pc = "img_post"
    /\ entry = "edit_image_sync"
    /\ posted' = opened_files
    /\ IF AnyClosed(opened_files)
       THEN /\ requests' = requests
            /\ opened_files' = CloseAll(opened_files)
            /\ pc' = "img_idle"
            /\ ImageRaises(ClosedFileError)
       ELSE /\ requests' = Append(requests,
                                  Request("POST_edit", ImageUrl("/images/edits"),
                                          SelfHeaders))
            /\ pc' = "img_wait"
            /\ UNCHANGED <<opened_files, written, result>>
    /\ UNCHANGED <<cls, args, image_model, call, ops, sora_vars, mode, entry,
                   api_key, response>>

EditImageSyncReceive ==
    /\ pc = "img_wait"
    /\ entry = "edit_image_sync"
    /\ \E resp \in ImageResponses :
         /\ response' = resp
         /\ IF RaisingOutcome("edit", resp).ok
            THEN Deliver(RaisingOutcome("edit", resp).bytes)
            ELSE ImageRaises(RaisingOutcome("edit", resp).exc)
    /\ opened_files' = CloseAll(opened_files)
    /\ pc' = "img_idle"
    /\ UNCHANGED <<cls, args, image_model, call, posted, ops, sora_vars, mode,
                   entry, api_key, requests>>

----------------------------------------------------------------------------
(* edit_image_async (GptImageClient, Foundry GptImageClient) *)

\* the Foundry client attaches the mask for the GPT_IMAGE model only
MaskAttached ==
    /\ Truthy(call.mask_path)
    /\ cls = "FoundryGptImageClient" => image_model = "GPT_IMAGE"

\* the files in the order they are opened: image, additional images, mask
EditAsyncParts ==
    << Part("image[]", call.image_path) >>
    \o AdditionalParts("image[]")
    \o (IF MaskAttached THEN << Part("mask", call.mask_path[1]) >> ELSE <<>>)

\* (mutant) no finally clause: a failed open leaves the earlier files open
EditImageAsyncOpenLeaks ==
    /\ pc = "img_open"
    /\ entry = "edit_image_async"
    /\ opened_files' = OpenEach(EditAsyncParts, <<>>).files
    /\ IF OpenEach(EditAsyncParts, <<>>).ok
       THEN /\ pc' = "img_post"
            /\ UNCHANGED <<written, result>>
       ELSE /\ pc' = "img_idle"
            /\ ImageRaises(FileNotFoundError(OpenEach(EditAsyncParts, <<>>).missing))
    /\ UNCHANGED <<cls, args, image_model, call, posted, ops, sora_vars, mode,
                   entry, api_key, requests, response>>

\* the opens of the try block; the finally clause closes what was opened
EditImageAsyncOpen ==
    /\ pc = "img_open"
    /\ entry = "edit_image_async"
    /\ IF OpenEach(EditAsyncParts, <<>>).ok
       THEN /\ opened_files' = OpenEach(EditAsyncParts, <<>>).files
            /\ pc' = "img_post"
            /\ UNCHANGED <<written, result>>
       ELSE /\ opened_files' = CloseAll(OpenEach(EditAsyncParts, <<>>).files)
            /\ pc' = "img_idle"
            /\ ImageRaises(FileNotFoundError(OpenEach(EditAsyncParts, <<>>).missing))
    /\ UNCHANGED <<cls, args, image_model, call, posted, ops, sora_vars, mode,
                   entry, api_key, requests, response>>

\* await client.post(url, headers=headers, data=payload, files=files)
EditImageAsyncPost ==
    /\ pc = "img_post"
    /\ entry = "edit_image_async"
    /\ posted' = opened_files
    /\ IF AnyClosed(opened_files)
       THEN /\ requests' = requests
            /\ opened_files' = CloseAll(opened_files)
            /\ pc' = "img_idle"
            /\ ImageRaises(ClosedFileError)
       ELSE /\ requests' = Append(requests,
                                  Request("POST_edit", ImageUrl("/images/edits"),
                                          WithoutContentType(SelfHeaders)))
            /\ pc' = "img_wait"
            /\ UNCHANGED <<opened_files, written, result>>
    /\ UNCHANGED <<cls, args, image_model, call, ops, sora_vars, mode, entry,
                   api_key, response>>

\* what edit_image_async makes of the response
EditAsyncOutcome(resp) ==
    IF resp.kind = "neterr"
    THEN ImageRaise(Exc("image_post",
                        <<"Network", "error", ":", "Connection", "refused">>))
    ELSE IF resp.code # 200
    THEN ImageRaise(FailedStatus("edit", resp))
    ELSE IF resp.json # "dict"
    THEN ImageRaise(JSONDecodeError("image_json"))
    ELSE IF ~resp.data.has_data \/ Len(resp.data.items) = 0
    THEN ImageRaise(Exc("image_data",
                        <<"No", "image", "data", "returned", "from", "Azure",
                          "OpenAI", "API">>))
    ELSE DecodeFirst(resp)

EditImageAsyncReceive ==
    /\ pc = "img_wait"
    /\ entry = "edit_image_async"
    /\ \E resp \in ImageResponses :
         /\ response' = resp
         /\ IF EditAsyncOutcome(resp).ok
            THEN Deliver(EditAsyncOutcome(resp).bytes)
            ELSE ImageRaises(EditAsyncOutcome(resp).exc)
    /\ opened_files' = CloseAll(opened_files)
    /\ pc' = "img_idle"
    /\ UNCHANGED <<cls, args, image_model, call, posted, ops, sora_vars, mode,
                   entry, api_key, requests>>

----------------------------------------------------------------------------
(* AzureOpenAIImageClient.edit_image *)

\* the files in the order they are opened: image, mask, additional images
AzureEditParts ==
    << Part("image", call.image_path) >>
    \o (IF Truthy(call.mask_path) THEN << Part("mask", call.mask_path[1]) >>
        ELSE <<>>)
    \o AdditionalParts("image")

\* every file is added to the form inside a with block, which closes it
AzureEditImageOpen ==
    /\ pc = "img_open"
    /\ entry = "edit_image"
    /\ opened_files' = CloseAll(OpenEach(AzureEditParts, <<>>).files)
    /\ IF OpenEach(AzureEditParts, <<>>).ok
       THEN /\ pc' = "img_post"
            /\ UNCHANGED <<written, result>>
       ELSE /\ pc' = "img_idle"
            /\ ImageRaises(FileNotFoundError(OpenEach(AzureEditParts, <<>>).missing))
    /\ UNCHANGED <<cls, args, image_model, call, posted, ops, sora_vars, mode,
                   entry, api_key, requests, response>>

\* async with session.post(url, headers=headers, data=form_data) as response:
\* the request is built from the form, and its answer handled
AzureEditImageRequest ==
    /\ pc = "img_post"
    /\ entry = "edit_image"
    /\ posted' = opened_files
    /\ IF AnyClosed(opened_files)
       THEN /\ requests' = requests
            /\ response' = response
            /\ ImageRaises(ClosedFileError)
       ELSE /\ requests' = Append(requests,
                                  Request("POST_edit", ImageUrl("/images/edits"),
                                          AzureEditHeaders))
            /\ \E resp \in ImageResponses :
                 /\ response' = resp
                 /\ IF RaisingOutcome("edit", resp).ok
                    THEN Deliver(RaisingOutcome("edit", resp).bytes)
                    ELSE ImageRaises(RaisingOutcome("edit", resp).exc)
    /\ pc' = "img_idle"
    /\ UNCHANGED <<cls, args, image_model, call, opened_files, ops, sora_vars,
                   mode, entry, api_key>>

----------------------------------------------------------------------------
(* Foundry GptImageClient.flux2edit_image_async *)

FluxParts == [i \in 1..Len(call.images) |-> Part("input_image", call.images[i])]

\* the argument checks, and the reading of every image into the payload
Flux2EditPrepare ==
    /\ pc = "img_open"
    /\ entry = "flux2edit_image_async"
    /\ IF image_model # "FLUX"
       THEN /\ opened_files' = <<>>
            /\ pc' = "img_idle"
            /\ ImageRaises(Exc("flux_args", <<"flux2edit_image_async",
                                              "requires", "ImageModel.FLUX">>))
       ELSE IF call.images = <<>>
       THEN /\ opened_files' = <<>>
            /\ pc' = "img_idle"
            /\ ImageRaises(Exc("flux_args", <<"At", "least", "one", "image",
                                              "is", "required">>))
       ELSE IF Len(call.images) > MaxFluxImages
       THEN /\ opened_files' = <<>>
            /\ pc' = "img_idle"
            /\ ImageRaises(Exc("flux_args", <<"A", "maximum", "of",
                                              ToString(MaxFluxImages), "images",
                                              "is", "supported">>))
       ELSE /\ opened_files' = CloseAll(OpenEach(FluxParts, <<>>).files)
            /\ IF OpenEach(FluxParts, <<>>).ok
               THEN /\ pc' = "img_post"
                    /\ UNCHANGED <<written, result>>
               ELSE /\ pc' = "img_idle"
                    /\ ImageRaises(FileNotFoundError(OpenEach(FluxParts, <<>>).missing))
    /\ UNCHANGED <<cls, args, image_model, call, posted, ops, sora_vars, mode,
                   entry, api_key, requests, response>>

\* await client.post(url, headers=headers, json=payload)
Flux2EditPost ==
    /\ pc = "img_post"
    /\ entry = "flux2edit_image_async"
    /\ requests' = Append(requests, Request("POST_flux", ImageUrl(""), FluxHeaders))
    /\ pc' = "img_wait"
    /\ UNCHANGED <<cls, args, image_vars, sora_vars, mode, entry, api_key,
                   response, result>>

\* first_item.get("b64_json") or first_item.get("base64") or ...
FluxImageText(item) ==
    IF Truthy(item.b64_json) THEN item.b64_json ELSE item.base64

\* what flux2edit_image_async makes of the response: "image" with the decoded
\* bytes, "json" when it hands back response_data, or "raise"
FluxOutcome(resp) ==
    IF resp.kind = "neterr"
    THEN [kind |-> "raise", bytes |-> "", exc |-> TransportError("image_post")]
    ELSE IF resp.code # 200
    THEN [kind |-> "raise", bytes |-> "", exc |-> FailedStatus("edit", resp)]
    ELSE IF resp.json # "dict"
    THEN [kind |-> "raise", bytes |-> "", exc |-> JSONDecodeError("image_json")]
    ELSE IF /\ resp.data.has_data
            /\ resp.data.items # <<>>
            /\ Truthy(FluxImageText(resp.data.items[1]))
    THEN IF b64decode(FluxImageText(resp.data.items[1])[1]).ok
         THEN [kind |-> "image",
               bytes |-> b64decode(FluxImageText(resp.data.items[1])[1]).bytes,
               exc |-> NoException]
         ELSE [kind |-> "raise", bytes |-> "",
               exc |-> Exc("image_b64", <<"Incorrect", "padding">>)]
    ELSE [kind |-> "json", bytes |-> "", exc |-> NoException]

Flux2EditReceive ==
    /\ pc = "img_wait"
    /\ entry = "flux2edit_image_async"
    /\ \E resp \in ImageResponses :
         /\ response' = resp
         /\ CASE FluxOutcome(resp).kind = "image" ->
                   Deliver(FluxOutcome(resp).bytes)
              [] FluxOutcome(resp).kind = "json" ->
                   /\ written' = written
                   /\ result' = ReturnedJson
              [] OTHER ->
                   ImageRaises(FluxOutcome(resp).exc)
    /\ pc' = "img_idle"
    /\ UNCHANGED <<cls, args, image_model, call, opened_files, posted, ops,
                   sora_vars, mode, entry, api_key, requests>>

----------------------------------------------------------------------------

\* one step of the blocking workflow
NextSync ==
    \/ GenHeaders
    \/ SubmitSend
    \/ SubmitReceive
    \/ PollStart
    \/ PollQuery
    \/ PollTimeout
    \/ PollReceive
    \/ PollSleep
    \/ Extract
    \/ DownloadHeaders
    \/ DownloadSend
    \/ DownloadReceive

\* one step of the cooperatively scheduled workflow
NextAsync ==
    \/ GenHeadersAsync
    \/ SubmitSendAsync
    \/ SubmitReceiveAsync
    \/ PollStartAsync
    \/ PollQueryAsync
    \/ PollTimeoutAsync
    \/ PollReceiveAsync
    \/ PollSleepAsync
    \/ ExtractAsync
    \/ DownloadHeadersAsync
    \/ DownloadSendAsync
    \/ DownloadReceiveAsync

Next ==
    \/ ConstructSora
    \/ CallPoller
    \/ ConstructImage
    \/ Invoke
    \/ GenerateImageSyncPost
    \/ GenerateImageSyncReceive
    \/ GenerateImageAsyncPost
    \/ GenerateImageAsyncReceive
    \/ AzureGenerateImagePost
    \/ AzureGenerateImageReceive
    \/ EditImageSyncOpen
    \/ EditImageSyncPost
    \/ EditImageSyncReceive
    \/ EditImageAsyncOpen
    \/ EditImageAsyncPost
    \/ EditImageAsyncReceive
    \/ AzureEditImageOpen
    \/ AzureEditImageRequest
    \/ Flux2EditPrepare
    \/ Flux2EditPost
    \/ Flux2EditReceive
    \/ mode = "sync" /\ GenHeaders
    \/ mode = "sync" /\ SubmitSend
    \/ mode = "sync" /\ SubmitReceive
    \/ mode = "sync" /\ PollStart
    \/ mode = "sync" /\ PollQuery
    \/ mode = "sync" /\ PollTimeout
    \/ mode = "sync" /\ PollReceive
    \/ mode = "sync" /\ PollSleep
    \/ mode = "sync" /\ Extract
    \/ mode = "sync" /\ DownloadHeaders
    \/ mode = "sync" /\ DownloadSend
    \/ mode = "sync" /\ DownloadReceive
    \/ mode = "async" /\ GenHeadersAsync
    \/ mode = "async" /\ SubmitSendAsync
    \/ mode = "async" /\ SubmitReceiveAsync
    \/ mode = "async" /\ PollStartAsync
    \/ mode = "async" /\ PollQueryAsync
    \/ mode = "async" /\ PollTimeoutAsync
    \/ mode = "async" /\ PollReceiveAsync
    \/ mode = "async" /\ PollSleepAsync
    \/ mode = "async" /\ ExtractAsync
    \/ mode = "async" /\ DownloadHeadersAsync
    \/ mode = "async" /\ DownloadSendAsync
    \/ mode = "async" /\ DownloadReceiveAsync

Spec == Init /\ [][Next]_vars

----------------------------------------------------------------------------
(* Concurrent generate_video_async calls on one SoraClient instance.        *)
(* Each call is a coroutine with its own locals (a frame). A coroutine runs *)
(* until its next await; while it waits (for a token, for a response, for   *)
(* the end of a sleep) the event loop runs the other coroutine and the      *)
(* clock, which all calls read, goes on.                                    *)

CallIds == {"a", "b"}
MaxClock == 12
ClockStep == 5
CallTimeouts == {5, 11}

\* the ids the service gives to the jobs it creates, in order of creation
ServiceJobIds == <<"job1", "job2">>
\* the generation and the video of a job
GenerationOf(id) == IF id = "job1" THEN "g1" ELSE "g2"
VideoOf(id) == IF id = "job1" THEN "VIDEO1" ELSE "VIDEO2"

\* the locals of one generate_video_async call that has not started yet
NewCall(limit) ==
    [pc |-> "gen_headers", timeout |-> limit, headers |-> NoHeaders,
     job_id |-> None, start_time |-> 0, wake |-> 0, url |-> <<>>,
     job_data |-> NoJson, result |-> NoResult]

\* the call is over: its locals are gone, its outcome is with the caller
Ended(f, r) == [NewCall(f.timeout) EXCEPT !.pc = "done", !.result = r]

\* the call's except clause: log and raise again
Raises(f, stage, e) == Ended(f, Raised(stage, e))

\* the service answers a POST that creates a job
ServiceSubmit ==
    { HttpError(500, <<"Internal", "error">>) }
    \cup (IF Len(jobs) < Len(ServiceJobIds)
          THEN { HttpJson(201, [NoJson EXCEPT
                                  !.id = Str(ServiceJobIds[Len(jobs) + 1])]) }
          ELSE {})

\* the jobs the service knows whose status (content) URL is url
StatusOf(url) ==
    { k \in 1..Len(jobs) : status_url_async(Str(jobs[k].id)) = url }
ContentOf(url) ==
    { k \in 1..Len(jobs) :
         content_url_async(Str(GenerationOf(jobs[k].id))) = url }

\* the service answers a status query: by the job the URL names
ServiceStatus(url) ==
    IF StatusOf(url) = {}
    THEN { HttpError(404, <<"Job", "not", "found">>) }
    ELSE LET id == jobs[CHOOSE k \in StatusOf(url) : TRUE].id IN
         { HttpError(500, <<"Internal", "error">>),
           HttpJson(200, [NoJson EXCEPT !.id = Str(id),
                                        !.status = Str("running")]),
           HttpJson(200, [NoJson EXCEPT
                            !.id = Str(id), !.status = Str("failed"),
                            !.error = [kind |-> "dict", has_message |-> TRUE,
                                       message |-> <<"render", "of", id>>]]),
           HttpJson(200, [NoJson EXCEPT
                            !.id = Str(id), !.status = Str("succeeded"),
                            !.generations =
                               [present |-> TRUE,
                                list |-> << [id |-> Str(GenerationOf(id))] >>]]) }

\* the service answers a download: by the generation the URL names
ServiceContent(url) ==
    IF ContentOf(url) = {}
    THEN { HttpError(404, <<"Not", "found">>) }
    ELSE { HttpContent(200, VideoOf(jobs[CHOOSE k \in ContentOf(url) : TRUE].id)) }

\* (mutant) the poller is given the id of the job created last on the instance
PollTargetShared(c) == Str(jobs[Len(jobs)].id)

\* the job_id generate_video_async passes to _poll_job_status_async
PollTarget(c) == calls[c].job_id

\* what a step of one call leaves alone: the client and the other workflows
conc_frame ==
    <<cls, args, image_vars, mode, entry, api_key, identity, timeout,
      poll_interval, pc, start_time, headers, job_id, requests, sleeps, response,
      job_data, video_url, dl_headers, result, getHeadersCalls>>

InitConc ==
    /\ cls = "SoraClient"
    /\ args = NoArgs
    /\ image_model = "GPT_IMAGE"
    /\ call = NoCall
    /\ opened_files = <<>>
    /\ posted = <<>>
    /\ written = <<>>
    /\ ops = 0
    /\ mode = "async"
    /\ entry = "generate_video"
    /\ api_key \in ApiKeys \cup {None}
    /\ identity = TRUE
    /\ timeout = 0
    /\ poll_interval = DefaultPollInterval
    /\ pc = "done"
    /\ now = 0
    /\ start_time = 0
    /\ headers = NoHeaders
    /\ job_id = None
    /\ requests = <<>>
    /\ sleeps = <<>>
    /\ response = NoResponse
    /\ job_data = NoJson
    /\ video_url = <<>>
    /\ dl_headers = NoHeaders
    /\ result = NoResult
    /\ getHeadersCalls = 0
    /\ jobs = <<>>
    /\ calls \in [CallIds -> { NewCall(t) : t \in CallTimeouts }]

\* time passes
Tick ==
    /\ now < MaxClock
    /\ now' = now + ClockStep
    /\ UNCHANGED <<calls, jobs, conc_frame>>

\* headers = await self._get_headers_async()
CallGenHeaders(c) ==
    /\ calls[c].pc = "gen_headers"
    /\ \E o \in GetHeadersOutcomesAsync :
         calls' = [calls EXCEPT ![c] =
                     IF o.ok
                     THEN [@ EXCEPT !.headers = o.headers, !.pc = "gen_post"]
                     ELSE Raises(@, "headers", o.exc)]
    /\ UNCHANGED <<now, jobs, conc_frame>>

\* await client.post(self.constructed_url, headers=headers, json=body)
CallSubmitSend(c) ==
    /\ calls[c].pc = "gen_post"
    /\ calls' = [calls EXCEPT ![c].url = constructed_url,
                              ![c].pc = "gen_post_wait"]
    /\ UNCHANGED <<now, jobs, conc_frame>>

\* the awaited POST response arrives
CallSubmitReceive(c) ==
    /\ calls[c].pc = "gen_post_wait"
    /\ \E resp \in ServiceSubmit :
         /\ jobs' = IF resp.code = 201
                    THEN Append(jobs, [id |-> resp.data.id[1], by |-> c])
                    ELSE jobs
         /\ calls' = [calls EXCEPT ![c] =
                        IF SubmitOutcomeAsync(resp).ok
                        THEN [@ EXCEPT !.job_id = SubmitOutcomeAsync(resp).job_id,
                                       !.url = <<>>,
                                       !.pc = "poll_start"]
                        ELSE Raises(@, "submit", SubmitOutcomeAsync(resp).exc)]
    /\ UNCHANGED <<now, conc_frame>>

\* _poll_job_status_async: start_time = time.time()
CallPollStart(c) ==
    /\ calls[c].pc = "poll_start"
    /\ calls' = [calls EXCEPT ![c].start_time = now, ![c].pc = "poll_loop"]
    /\ UNCHANGED <<now, jobs, conc_frame>>

\* the loop condition holds: await client.get(status_url, headers=headers)
CallPollQuery(c) ==
    /\ calls[c].pc = "poll_loop"
    /\ BeforeDeadlineAsync(calls[c].start_time, calls[c].timeout)
    /\ calls' = [calls EXCEPT ![c].url = status_url_async(PollTarget(c)),
                              ![c].pc = "poll_wait"]
    /\ UNCHANGED <<now, jobs, conc_frame>>

\* the loop condition fails: raise the timeout
CallPollTimeout(c) ==
    /\ calls[c].pc = "poll_loop"
    /\ ~BeforeDeadlineAsync(calls[c].start_time, calls[c].timeout)
    /\ calls' = [calls EXCEPT ![c] =
                   Raises(@, "poll", PollTimeoutErrorAsync(@.timeout))]
    /\ UNCHANGED <<now, jobs, conc_frame>>

\* the awaited response to a status query arrives; the call returns the job,
\* raises, or starts await asyncio.sleep(poll_interval)
CallPollReceive(c) ==
    /\ calls[c].pc = "poll_wait"
    /\ \E resp \in ServiceStatus(calls[c].url) :
         calls' = [calls EXCEPT ![c] =
                     CASE IterationAsync(resp).kind = "return" ->
                            [@ EXCEPT !.job_data = ParsedAsync(resp),
                                      !.url = <<>>,
                                      !.pc = "gen_extract"]
                       [] IterationAsync(resp).kind = "raise" ->
                            Raises(@, "poll", IterationAsync(resp).exc)
                       [] OTHER ->
                            [@ EXCEPT !.wake = now + DefaultPollInterval,
                                      !.url = <<>>,
                                      !.pc = "poll_sleep"]]
    /\ UNCHANGED <<now, jobs, conc_frame>>

\* the sleep is over: the event loop resumes the call
CallPollSleep(c) ==
    /\ calls[c].pc = "poll_sleep"
    /\ now >= calls[c].wake
    /\ calls' = [calls EXCEPT ![c].wake = 0, ![c].pc = "poll_loop"]
    /\ UNCHANGED <<now, jobs, conc_frame>>

\* generate_video_async: the video URL out of the completed job
CallExtract(c) ==
    /\ calls[c].pc = "gen_extract"
    /\ calls' = [calls EXCEPT ![c] =
                   IF VideosAsync(@.job_data) = <<>>
                   THEN Raises(@, "extract",
                               Exc("no_videos", <<"No", "videos", "found", "in",
                                                  "completed", "job">>))
                   ELSE [@ EXCEPT
                           !.url = content_url_async(
                                      ChosenAsync(VideosAsync(calls[c].job_data)).id),
                           !.job_data = NoJson,
                           !.pc = "dl_headers"]]
    /\ UNCHANGED <<now, jobs, conc_frame>>

\* _download_video_async: headers = await self._get_headers_async(), and with
\* them await client.get(video_url, headers=headers)
CallDownloadHeaders(c) ==
    /\ calls[c].pc = "dl_headers"
    /\ \E o \in GetHeadersOutcomesAsync :
         calls' = [calls EXCEPT ![c] =
                     IF o.ok
                     THEN [@ EXCEPT !.pc = "dl_wait"]
                     ELSE Raises(@, "download", o.exc)]
    /\ UNCHANGED <<now, jobs, conc_frame>>

\* the awaited download response arrives; generate_video_async returns
CallDownloadReceive(c) ==
    /\ calls[c].pc = "dl_wait"
    /\ \E resp \in ServiceContent(calls[c].url) :
         calls' = [calls EXCEPT ![c] =
                     IF DownloadOutcomeAsync(resp).ok
                     THEN Ended(@, ReturnedBytes(DownloadOutcomeAsync(resp).bytes))
                     ELSE Raises(@, "download", DownloadOutcomeAsync(resp).exc)]
    /\ UNCHANGED <<now, jobs, conc_frame>>

\* the event loop runs one call up to its next await, or time passes
NextConc ==
    \/ Tick
    \/ \E c \in CallIds : CallGenHeaders(c)
    \/ \E c \in CallIds : CallSubmitSend(c)
    \/ \E c \in CallIds : CallSubmitReceive(c)
    \/ \E c \in CallIds : CallPollStart(c)
    \/ \E c \in CallIds : CallPollQuery(c)
    \/ \E c \in CallIds : CallPollTimeout(c)
    \/ \E c \in CallIds : CallPollReceive(c)
    \/ \E c \in CallIds : CallPollSleep(c)
    \/ \E c \in CallIds : CallExtract(c)
    \/ \E c \in CallIds : CallDownloadHeaders(c)
    \/ \E c \in CallIds : CallDownloadReceive(c)

SpecConc == InitConc /\ [][NextConc]_vars

----------------------------------------------------------------------------
(* Vocabulary of the properties *)

OfKind(reqs, kind) == SelectSeq(reqs, LAMBDA r : r.kind = kind)
StatusQueries(reqs) == OfKind(reqs, "GET_status")
Count(kind) == Len(OfKind(requests, kind))

\* resp is an HTTP 200 answer whose JSON object has a status in S
Answered200(resp, S) ==
    /\ resp.kind = "http"
    /\ resp.code = 200
    /\ resp.json = "dict"
    /\ resp.data.status \in S

\* resp is a query failure: no response, a non-200 response, or a body that is
\* no JSON object
QueryFailure(resp) ==
    \/ resp.kind = "neterr"
    \/ resp.kind = "http" /\ resp.code # 200
    \/ resp.kind = "http" /\ resp.code = 200 /\ resp.json # "dict"

TerminalFailures == {Str("failed"), Str("cancelled"), Str("expired")}

\* the poller has returned a job to its caller
PollerReturned ==
    \/ pc \in {"gen_extract", "dl_headers", "dl_get", "dl_wait"}
    \/ pc = "done" /\ result.stage \in {"extract", "download"}
    \/ pc = "done" /\ result = ReturnedJob

\* the poller has raised
PollerRaised == pc = "done" /\ result.kind = "raised" /\ result.stage = "poll"

\* `response` is the answer to the last status query, just handled
JustHandled ==
    \/ pc \in {"poll_sleep", "gen_extract"}
    \/ pc = "done" /\ result = ReturnedJob
    \/ PollerRaised /\ result.exc.site # "poll_timeout"

----------------------------------------------------------------------------
(* C1: the poller returns a job only when a status query answered HTTP 200    *)
(* with status 'succeeded', and every exit of the loop is the return of a     *)
(* succeeded job, the raise of a terminal job error (the job was reported     *)
(* failed, cancelled or expired) or the raise of the polling timeout.         *)
C1_PollerExits ==
    /\ PollerReturned => job_data.status = Str("succeeded")
    /\ (pc = "gen_extract" \/ (pc = "done" /\ result = ReturnedJob)) =>
          /\ Answered200(response, {Str("succeeded")})
          /\ job_data = response.data
    /\ PollerRaised =>
          \/ /\ result.exc.site = "poll_timeout"
             /\ now - start_time >= timeout
          \/ /\ result.exc.site \in {"poll_failed", "poll_terminal"}
             /\ Answered200(response, TerminalFailures)

(* C2: a status query that reports 'succeeded' makes the poller return that   *)
(* query's job data on the spot, without a sleep, and after the poller has    *)
(* returned no status query is sent and no sleep is taken.                     *)
C2_SucceededEndsPolling ==
    /\ [][ (pc = "poll_wait" /\ Answered200(response', {Str("succeeded")})) =>
             /\ PollerReturned'
             /\ job_data' = response'.data
             /\ sleeps' = sleeps
             /\ requests' = requests ]_vars
    /\ [][ PollerReturned =>
             /\ sleeps' = sleeps
             /\ StatusQueries(requests') = StatusQueries(requests) ]_vars

\* a session that polled, slept and then saw 'succeeded'
C2_Witness ==
    /\ pc = "gen_extract"
    /\ Len(sleeps) >= 1
    /\ Len(StatusQueries(requests)) = Len(sleeps) + 1

(* C3: a status query that reports 'failed' makes the poller raise the        *)
(* job-failed error with the job's error message on that iteration, with no   *)
(* sleep and no retry, whatever the shape of the error detail.                *)
C3_FailedRaisesAtOnce ==
    (JustHandled /\ Answered200(response, {Str("failed")})) =>
        /\ PollerRaised
        /\ result.exc.site = "poll_failed"
        /\ Contains(result.exc.msg, JobFailedMark)
        /\ response.data.error.has_message =>
              Contains(result.exc.msg, response.data.error.message)

(* C4: a status query that reports 'cancelled' or 'expired' makes the poller  *)
(* raise, on that iteration, an error naming the status: no retry, no sleep,  *)
(* no wait for the deadline, and no query after it.                            *)
C4_CancelledExpiredRaiseAtOnce ==
    /\ [][ (pc = "poll_wait"
            /\ Answered200(response', {Str("cancelled"), Str("expired")})) =>
             /\ PollerRaised'
             /\ result'.exc.msg = <<"Job", Format(response'.data.status)>>
             /\ sleeps' = sleeps
             /\ requests' = requests ]_vars
    /\ [][ PollerRaised => (requests' = requests /\ sleeps' = sleeps) ]_vars
    /\ [] (PollerRaised /\ result.exc.site = "poll_terminal" =>
             Len(StatusQueries(requests)) = Len(sleeps) + 1)

\* 'expired' seen on a later poll, before the deadline
C4_Witness ==
    /\ PollerRaised
    /\ Answered200(response, {Str("expired")})
    /\ result.exc.msg = <<"Job", "expired">>
    /\ Len(sleeps) >= 1
    /\ now - start_time < timeout

(* C5: no status query is started at or after the deadline start+timeout, and *)
(* a session that reaches the head of the loop at or after the deadline       *)
(* raises the polling-timeout error, which mentions the timeout value.        *)
C5_TimeoutAtDeadline ==
    /\ [] (\A i \in 1..Len(requests) :
              requests[i].kind = "GET_status" =>
                  requests[i].at - start_time < timeout)
    /\ [][ (pc = "poll_loop" /\ now - start_time >= timeout) =>
             /\ PollerRaised'
             /\ result'.exc.site = "poll_timeout"
             /\ Contains(result'.exc.msg, <<"timeout", "after", ToString(timeout)>>)
             /\ requests' = requests ]_vars
    /\ [] (PollerRaised /\ result.exc.site = "poll_timeout" =>
             now - start_time >= timeout)

\* only non-terminal statuses were seen, over several polls, until the timeout
C5_Witness ==
    /\ PollerRaised
    /\ result.exc.site = "poll_timeout"
    /\ Len(StatusQueries(requests)) >= 2
    /\ \A i \in 1..Len(sleeps) : sleeps[i].cause = "sleep"
    /\ Len(sleeps) = Len(StatusQueries(requests))

(* C6: failed status queries (no response, or a non-200 response) before the  *)
(* deadline never abort the loop: the poller sleeps and polls again, and a    *)
(* later query that reports 'succeeded' makes it return that job.             *)
C6_FailuresTolerated ==
    /\ (JustHandled /\ (response.kind = "neterr"
                        \/ (response.kind = "http" /\ response.code # 200))) =>
           pc = "poll_sleep"
    /\ (JustHandled /\ Answered200(response, {Str("succeeded")})) =>
           PollerReturned /\ job_data = response.data

(* C7: the poller raises a job-failed or job-terminal error only after an     *)
(* HTTP 200 answer reported 'failed', 'cancelled' or 'expired'; a query       *)
(* failure, whatever its text, is logged and retried and never ends the loop. *)
C7_OnlyTerminalStatusRaises ==
    /\ (PollerRaised /\ result.exc.site # "poll_timeout") =>
           Answered200(response, TerminalFailures)
    /\ (JustHandled /\ QueryFailure(response)) =>
           /\ Iteration(response).kind = "retry"
           /\ pc = "poll_sleep"
           /\ result = NoResult

(* C8: when the download answers 200, generate_video returns exactly the      *)
(* bytes of that response; the download URL is built from the id of the first *)
(* generation of the succeeded job, and exactly one download is made.         *)
C8_RoundTrip ==
    /\ [][ (pc = "dl_wait" /\ response'.kind = "http" /\ response'.code = 200) =>
             /\ pc' = "done"
             /\ result' = ReturnedBytes(response'.content) ]_vars
    /\ [] ((entry = "generate_video" /\ result.kind = "returned") =>
             /\ result.bytes = response.content
             /\ response.kind = "http" /\ response.code = 200
             /\ job_data.status = Str("succeeded")
             /\ Len(job_data.generations.list) >= 1)
    /\ [] (\A i \in 1..Len(requests) :
              requests[i].kind = "GET_content" =>
                 /\ Count("GET_content") = 1
                 /\ Len(job_data.generations.list) >= 1
                 /\ requests[i].url =
                       content_url(job_data.generations.list[1].id))

\* the job lists two generations and the call returned after several polls
C8_Witness ==
    /\ entry = "generate_video"
    /\ result.kind = "returned"
    /\ result.bytes = "VIDEO2"
    /\ Len(job_data.generations.list) = 2
    /\ Len(sleeps) >= 1

(* C9, as claimed: a finished generate_video call has sent the POST exactly   *)
(* once and the download at most once, the download only after the poller     *)
(* returned a succeeded job, and ended in one return or one raise.            *)
C9_PostExactlyOnce ==
    (entry = "generate_video" /\ pc = "done") =>
        /\ Count("POST") = 1
        /\ Count("GET_content") <= 1
        /\ Count("GET_content") = 1 => job_data.status = Str("succeeded")
        /\ result.kind \in {"returned", "raised"}

(* C9, amended: the POST is sent at most once, and exactly once in every call *)
(* whose credential resolution succeeded (a call whose _get_headers raises    *)
(* sends nothing); the download is sent at most once and only after the       *)
(* poller returned a succeeded job; once a stage has raised nothing is sent   *)
(* again; a finished call has returned bytes or raised one error.             *)
C9_SingleAttempt ==
    /\ [] (entry = "generate_video" =>
             /\ Count("POST") <= 1
             /\ Count("GET_content") <= 1
             /\ pc = "done" => (Count("POST") = 1 <=> result.stage # "headers")
             /\ Count("GET_content") = 1 =>
                   /\ PollerReturned
                   /\ job_data.status = Str("succeeded")
                   /\ requests[Len(requests)].kind = "GET_content"
             /\ pc = "done" =>
                   \/ result.kind = "returned" /\ result.exc = NoException
                   \/ result.kind = "raised" /\ result.exc # NoException
             /\ pc \notin {"done", "init_failed"} => result = NoResult)
    /\ [][ (cls = "SoraClient" /\ result.kind # "none") =>
             (requests' = requests /\ result' = result) ]_vars

\* the download failed after a submission and repeated status queries
C9_Witness ==
    /\ entry = "generate_video"
    /\ pc = "done"
    /\ result.kind = "raised"
    /\ result.stage = "download"
    /\ Count("POST") = 1
    /\ Count("GET_status") >= 2
    /\ Count("GET_content") = 1

(* C10: submission succeeds only on HTTP 201 with a non-empty id; any other   *)
(* status raises an error carrying the status code and body text, a 201       *)
(* without an id raises, and after either no status query and no download is  *)
(* sent.                                                                       *)
C10_SubmissionAccepts ==
    /\ [][ pc = "gen_post_wait" =>
             IF /\ response'.kind = "http" /\ response'.code = 201
                /\ response'.json = "dict" /\ Truthy(response'.data.id)
             THEN /\ pc' = "poll_start"
                  /\ job_id' = response'.data.id
                  /\ result' = NoResult
             ELSE /\ pc' = "done"
                  /\ result'.kind = "raised"
                  /\ result'.stage = "submit"
                  /\ (response'.kind = "http" /\ response'.code # 201) =>
                        Contains(result'.exc.msg,
                                 <<ToString(response'.code), "-">> \o response'.body)
           ]_vars
    /\ [] (result.stage = "submit" =>
             /\ Len(requests) = 1
             /\ Count("GET_status") = 0
             /\ Count("GET_content") = 0)
    /\ [][ result.stage = "submit" => requests' = requests ]_vars
    /\ [] (Count("GET_status") > 0 /\ entry = "generate_video" => Truthy(job_id))

\* the service answered 200, not 201, with a well-formed job
C10_Witness ==
    /\ pc = "done"
    /\ result.stage = "submit"
    /\ response.code = 200
    /\ response.json = "dict"
    /\ Truthy(response.data.id)
    /\ Contains(result.exc.msg, <<"200", "-">>)

(* C11: when the poller returns a succeeded job whose 'generations' list is   *)
(* empty or absent, generate_video raises an error and sends no download.     *)
C11_NoGenerationsRaises ==
    /\ [][ (pc = "gen_extract"
            /\ (~job_data.generations.present \/ job_data.generations.list = <<>>)) =>
             /\ pc' = "done"
             /\ result'.kind = "raised"
             /\ result'.stage = "extract"
             /\ requests' = requests
             /\ getHeadersCalls' = getHeadersCalls ]_vars
    /\ [] ((PollerReturned /\ entry = "generate_video"
            /\ (~job_data.generations.present \/ job_data.generations.list = <<>>)) =>
             /\ Count("GET_content") = 0
             /\ pc \in {"gen_extract", "done"}
             /\ pc = "done" => result.kind = "raised")

\* a job that succeeded after a poll, with the 'generations' key absent
C11_Witness ==
    /\ pc = "done"
    /\ result.stage = "extract"
    /\ result.kind = "raised"
    /\ job_data.status = Str("succeeded")
    /\ ~job_data.generations.present
    /\ Len(sleeps) >= 1

\* generate_video has not yet asked for credentials
BeforeResolution == pc \in {"init", "init_failed", "gen_headers"}

\* the downloader has resolved its credentials
DownloaderResolved == pc \in {"dl_get", "dl_wait"} \/ result.stage = "download"

(* C12, as claimed: within one generate_video call the credential resolver is *)
(* invoked exactly once, and the header set it produced is attached to the    *)
(* submission, to every status query and to the download.                     *)
C12_ResolvedOnce ==
    entry = "generate_video" =>
        /\ getHeadersCalls = (IF BeforeResolution THEN 0 ELSE 1)
        /\ \A i \in 1..Len(requests) : requests[i].headers = headers

(* C12, amended: generate_video invokes the resolver once, before the         *)
(* submission, and that header set is attached to the POST and to every       *)
(* status query; the downloader invokes the resolver a second time and the    *)
(* download carries the header set of that second call, which has the same    *)
(* authentication kind and is the same set when a static key is configured.   *)
C12_ResolvedPerStage ==
    entry = "generate_video" =>
        /\ getHeadersCalls = (IF BeforeResolution THEN 0
                              ELSE IF DownloaderResolved THEN 2 ELSE 1)
        /\ \A i \in 1..Len(requests) :
              /\ requests[i].kind \in {"POST", "GET_status"} =>
                    /\ requests[i].headers = headers
                    /\ headers # NoHeaders
              /\ requests[i].kind = "GET_content" =>
                    /\ requests[i].headers = dl_headers
                    /\ dl_headers # NoHeaders
                    /\ dl_headers.auth = headers.auth
                    /\ Truthy(api_key) => dl_headers = headers

\* the download went out with another bearer token than the submission
C12_Witness ==
    /\ entry = "generate_video"
    /\ result.kind = "returned"
    /\ getHeadersCalls = 2
    /\ Count("GET_status") >= 2
    /\ requests[Len(requests)].kind = "GET_content"
    /\ requests[Len(requests)].headers # requests[1].headers

\* the poller has just returned or raised: `now` is the time of its exit
PollerExited ==
    \/ pc = "gen_extract"
    \/ pc = "done" /\ result = ReturnedJob
    \/ PollerRaised

(* C13, as claimed: the time between the poller's start and its return or     *)
(* raise never exceeds timeout.                                               *)
C13_TimeoutBoundsSession ==
    PollerExited => now - start_time <= timeout

(* C13, amended: the deadline is tested only before a status query is sent,   *)
(* so a poll session ends less than one query duration after the deadline     *)
(* when it ends with a return or a terminal error, and less than one query    *)
(* duration plus one poll_interval after the deadline when it ends with the   *)
(* timeout error, which is never raised before the deadline.                  *)
C13_OvershootBounded ==
    /\ (PollerExited /\ ~(PollerRaised /\ result.exc.site = "poll_timeout")) =>
          now - start_time < timeout + MaxQueryDuration
    /\ (PollerRaised /\ result.exc.site = "poll_timeout") =>
          /\ now - start_time >= timeout
          /\ now - start_time < timeout + MaxQueryDuration + poll_interval
          /\ Len(sleeps) = 0 => now = start_time

\* a slow last query and the sleep after it carried the session past the deadline
C13_Witness ==
    /\ PollerRaised
    /\ result.exc.site = "poll_timeout"
    /\ timeout > 0
    /\ Len(sleeps) >= 2
    /\ now - start_time > timeout + 1

(* C14: the blocking and the cooperatively scheduled video workflows are      *)
(* equivalent: from every reachable state, for the same service response and  *)
(* the same timing, a step is a step of generate_video_sync (its poller, its  *)
(* downloader) exactly when it is a step of generate_video_async, so both     *)
(* send the same requests with the same URLs and headers, sleep the same      *)
(* intervals and end with the same bytes or the same error message.           *)
C14_SyncAsyncEquivalent == [][NextSync <=> NextAsync]_vars

\* a cooperatively scheduled call that polled, slept and returned the bytes
C14_Witness ==
    /\ mode = "async"
    /\ entry = "generate_video"
    /\ result.kind = "returned"
    /\ Len(sleeps) >= 2
    /\ \E i \in 1..Len(sleeps) : sleeps[i].cause = "retry"
    /\ Count("GET_content") = 1

\* an authentication mode is available to the instance
AuthAvailable == Truthy(api_key) \/ (cls = "SoraClient" /\ identity)

(* C17: constructing a client with no static key (neither argument nor        *)
(* environment) and no identity-provider integration raises at construction,  *)
(* before any request; a failed construction is the end, so no request is     *)
(* ever sent by a client without an authentication mode; and SoraClient also  *)
(* raises at construction when no endpoint is available.                      *)
C17_EagerConfigurationCheck ==
    /\ [][ (pc = "init" /\ ~Truthy(ResolvedApiKey)
                        /\ ~(cls = "SoraClient" /\ identity)) =>
             /\ pc' = "init_failed"
             /\ result'.kind = "raised"
             /\ result'.stage = "init"
             /\ requests' = <<>> ]_vars
    /\ [][ (pc = "init" /\ cls = "SoraClient" /\ ResolvedEndpoint = <<>>) =>
             /\ pc' = "init_failed"
             /\ result' = Raised("init", result'.exc)
             /\ result'.exc.site = "init_endpoint"
             /\ requests' = <<>> ]_vars
    /\ [][ pc # "init_failed" ]_vars
    /\ [] (pc \in {"init", "init_failed"} => requests = <<>> /\ getHeadersCalls = 0)
    /\ [] (pc \notin {"init", "init_failed"} => AuthAvailable)
    /\ [] (requests # <<>> => AuthAvailable)

\* a SoraClient with an endpoint but neither key nor azure-identity
C17_Witness ==
    /\ pc = "init_failed"
    /\ cls = "SoraClient"
    /\ ~identity
    /\ result.exc.site = "init_auth"
    /\ requests = <<>>

\* the authentication mode the constructor selected for the instance
SelectedAuth == IF Truthy(api_key) THEN "api-key" ELSE "Authorization"

NonSuccessHandled ==
    /\ response.kind = "http"
    /\ response.code \notin 200..299
    /\ \/ pc = "img_idle"
       \/ pc = "done" /\ result.stage \in {"submit", "download"}

(* C18: in every single-request operation (image generation, image editing,   *)
(* video job submission, video download) a non-2xx response makes the         *)
(* operation raise an error that carries the status code and the body text;   *)
(* none returns a normal value after it, and none sends the request again.    *)
C18_NonSuccessRaises ==
    /\ NonSuccessHandled =>
          /\ result.kind = "raised"
          /\ Contains(result.exc.msg,
                      <<ToString(response.code), "-">> \o response.body)
    /\ cls \in ImageClasses => Len(requests) <= ops
    /\ cls = "SoraClient" => Count("POST") <= 1 /\ Count("GET_content") <= 1

\* the body encoding of a request, by its kind
Encoding(kind) ==
    CASE kind \in {"POST", "POST_generate", "POST_flux"} -> "json"
      [] kind = "POST_edit" -> "multipart"
      [] OTHER -> "none"

(* C19: every JSON request is sent with 'Content-Type: application/json', and *)
(* every multipart request (an image edit with file parts) is sent without a  *)
(* Content-Type header set by the caller.                                     *)
C19_ContentTypeFitsBody ==
    \A i \in 1..Len(requests) :
        /\ Encoding(requests[i].kind) = "json" =>
              requests[i].headers.content_type = "application/json"
        /\ Encoding(requests[i].kind) = "multipart" =>
              requests[i].headers.content_type = ""

\* the image bytes an operation decodes out of the answer to its request
Decoded(resp) ==
    IF entry = "flux2edit_image_async"
    THEN FluxOutcome(resp).bytes ELSE DecodeFirst(resp).bytes

\* an image operation ends in this step
ImageOperationEnds ==
    /\ cls \in ImageClasses
    /\ pc \in {"img_open", "img_post", "img_wait"}
    /\ pc' = "img_idle"

OwnJobs(c) == { jobs[k].id : k \in { n \in 1..Len(jobs) : jobs[n].by = c } }

\* call c is inside its poller
Polling(c) == calls[c].pc \in {"poll_loop", "poll_wait", "poll_sleep"}

(* C15: concurrent generate_video_async calls on one instance, interleaved at *)
(* every await, do not interfere. Each call has at most one job; every status *)
(* query of a call names the job created for that call, and its download the  *)
(* generation of that job; a call returns the bytes of its own job's video,   *)
(* or raises the failure of its own job; a call queries only before its own   *)
(* deadline (its own start_time and timeout) and raises the timeout, with its *)
(* own timeout in the message, only at or after it; a step of one call        *)
(* changes no local of the other; and no step writes an attribute of the      *)
(* client instance.                                                           *)
C15_ConcurrentCallsIndependent ==
    /\ [] \A c \in CallIds :
            /\ Cardinality(OwnJobs(c)) <= 1
            /\ calls[c].job_id # None => OwnJobs(c) = {calls[c].job_id[1]}
            /\ calls[c].pc = "poll_wait" =>
                  \E id \in OwnJobs(c) : calls[c].url = status_url_async(Str(id))
            /\ calls[c].pc = "dl_wait" =>
                  \E id \in OwnJobs(c) :
                     calls[c].url = content_url_async(Str(GenerationOf(id)))
            /\ calls[c].result.kind = "returned" =>
                  \E id \in OwnJobs(c) : calls[c].result.bytes = VideoOf(id)
            /\ (calls[c].result.kind = "raised"
                  /\ calls[c].result.exc.site = "poll_failed") =>
                  \E id \in OwnJobs(c) :
                     calls[c].result.exc.msg
                        = <<"Job", "failed", ":", "render", "of", id>>
    /\ [][ \A c \in CallIds :
             /\ calls'[c].timeout = calls[c].timeout
             /\ (calls[c].pc = "poll_start" /\ calls'[c].pc # "poll_start") =>
                   calls'[c].start_time = now
             /\ (Polling(c) /\ Polling(c)') =>
                   /\ calls'[c].start_time = calls[c].start_time
                   /\ calls'[c].job_id = calls[c].job_id
                   /\ calls'[c].headers = calls[c].headers
             /\ (calls[c].pc = "poll_loop" /\ calls'[c].pc = "poll_wait") =>
                   now - calls[c].start_time < calls[c].timeout
             /\ (calls[c].pc = "poll_loop" /\ calls'[c].pc = "done") =>
                   /\ now - calls[c].start_time >= calls[c].timeout
                   /\ calls'[c].result
                        = Raised("poll", PollTimeoutErrorAsync(calls[c].timeout)) ]_vars
    /\ [][ \A c, d \in CallIds :
             (c # d /\ calls'[c] # calls[c]) =>
                /\ calls'[d] = calls[d]
                /\ now' = now ]_vars
    /\ [][ UNCHANGED <<cls, args, api_key, identity>> ]_vars

\* both calls wait for the answer to a status query at once, each about its
\* own job, with different start times and different deadlines
C15_Witness ==
    /\ calls["a"].pc = "poll_wait"
    /\ calls["b"].pc = "poll_wait"
    /\ calls["a"].url # calls["b"].url
    /\ calls["a"].start_time < calls["b"].start_time
    /\ calls["a"].timeout > calls["b"].timeout
    /\ jobs[1].by = "b"
    /\ now - calls["b"].start_time >= DefaultPollInterval

\* the poller is at the head of its loop, or has just failed the test there
AtLoopHead ==
    \/ pc = "poll_loop"
    \/ PollerRaised /\ result.exc.site = "poll_timeout"

\* the poller has started an iteration that is not yet followed by a sleep:
\* its query is in flight, or answered and handled
InIteration ==
    \/ pc \in {"poll_wait", "poll_sleep"}
    \/ PollerReturned
    \/ PollerRaised /\ result.exc.site # "poll_timeout"

(* C21: the poll loop advances at a fixed cadence. Every iteration that does  *)
(* not leave the loop (a non-terminal, missing or unrecognised status, or a   *)
(* tolerated query failure) is followed by exactly one sleep of poll_interval *)
(* before the next deadline check, and an iteration that returns or raises    *)
(* sleeps not at all: at the head of the loop there are as many sleeps as     *)
(* queries, inside an iteration and after leaving the loop from one there is  *)
(* one sleep fewer than queries; a sleep starts only after such an iteration, *)
(* lasts poll_interval and leads to the deadline check.                       *)
C21_FixedCadence ==
    /\ [] (cls = "SoraClient" =>
             /\ AtLoopHead => Len(sleeps) = Count("GET_status")
             /\ InIteration => Len(sleeps) + 1 = Count("GET_status")
             /\ pc = "poll_sleep" =>
                   \/ Answered200(response,
                                  {None, Str("queued"), Str("running"), Str("paused")})
                   \/ QueryFailure(response)
                   \/ Answered200(response, {Str("failed")})
                        /\ response.data.error.kind = "null")
    /\ [][ sleeps' # sleeps =>
             /\ pc = "poll_sleep"
             /\ pc' = "poll_loop"
             /\ Len(sleeps') = Len(sleeps) + 1
             /\ sleeps'[Len(sleeps')].at = now
             /\ now' = now + poll_interval
             /\ requests' = requests ]_vars
    /\ [][ (pc = "poll_sleep" /\ pc' # "poll_sleep") => sleeps' # sleeps ]_vars
    /\ [][ (pc = "poll_wait" /\ pc' \notin {"poll_wait", "poll_sleep"}) =>
             /\ sleeps' = sleeps
             /\ \/ Answered200(response', {Str("succeeded")} \cup TerminalFailures)
                \/ QueryFailure(response') ]_vars

\* the loop went round after an unrecognised status and after a failed query,
\* and then left on a terminal status without a further sleep
C21_Witness ==
    /\ PollerRaised
    /\ result.exc.site = "poll_terminal"
    /\ Len(sleeps) = 2
    /\ sleeps[1].cause = "sleep"
    /\ sleeps[2].cause = "retry"
    /\ Count("GET_status") = 3
    /\ sleeps[2].at - sleeps[1].at >= poll_interval

\* ceil(t / p) for t >= 0 and p >= 1
Ceil(t, p) == (t + p - 1) \div p

\* every status query so far was answered in no time and followed by a sleep
InstantaneousQueries ==
    /\ Len(sleeps) = Count("GET_status")
    /\ \A i \in 1..Len(sleeps) : sleeps[i].at = StatusQueries(requests)[i].at

\* the poller has raised its timeout error
TimedOut == PollerRaised /\ result.exc.site = "poll_timeout"

\* the count and the times of the queries of a session that timed out after
\* instantaneous queries
QueriesOnTheGrid ==
    (TimedOut /\ InstantaneousQueries) =>
        /\ Count("GET_status") = Ceil(timeout, poll_interval)
        /\ \A i \in 1..Count("GET_status") :
              /\ StatusQueries(requests)[i].at
                    = start_time + (i - 1) * poll_interval
              /\ StatusQueries(requests)[i].at < start_time + timeout
        /\ now = start_time + Ceil(timeout, poll_interval) * poll_interval
        /\ timeout <= 0 => Count("GET_status") = 0 /\ now = start_time

(* C22: in integer time with instantaneous queries and poll_interval p >= 1,  *)
(* a session that only sees non-terminal statuses or query failures stays in  *)
(* the loop after each of them, issues exactly ceil(timeout/p) queries, at    *)
(* start, start+p, start+2p, ... strictly below the deadline, and then raises *)
(* the timeout error; with timeout <= 0 it issues no query and raises at once.*)
C22_BoundedQueries ==
    /\ cls = "SoraClient" => Count("GET_status") <= Ceil(timeout, poll_interval)
    /\ QueriesOnTheGrid
    /\ (JustHandled /\ (QueryFailure(response)
                        \/ Answered200(response, NonTerminalStatuses))) =>
          pc = "poll_sleep"

\* the answer to a status query arrives in this step, at or after the deadline
LateAnswer ==
    /\ cls = "SoraClient"
    /\ pc = "poll_wait"
    /\ pc' # "poll_wait"
    /\ now' - start_time >= timeout

(* C23: the deadline is tested only at the head of the loop. The answer to a  *)
(* query that was started before the deadline and completes at or after it   *)
(* still decides the outcome: 'succeeded' returns the job, and 'failed',      *)
(* 'cancelled' or 'expired' raise the terminal error, not the timeout error;  *)
(* the timeout error is raised only by a deadline test that fails.            *)
C23_DeadlineAtLoopHead ==
    /\ [][ LateAnswer =>
             /\ Answered200(response', {Str("succeeded")}) =>
                   /\ PollerReturned'
                   /\ job_data' = response'.data
             /\ Answered200(response', TerminalFailures) =>
                   /\ PollerRaised'
                   /\ result'.exc.site \in {"poll_failed", "poll_terminal"} ]_vars
    /\ [][ (TimedOut' /\ ~TimedOut) =>
             /\ pc = "poll_loop"
             /\ now - start_time >= timeout
             /\ requests' = requests ]_vars

\* a file handle of the running call is closed in this step
ClosesAFile ==
    \E i \in 1..Len(opened_files') :
        /\ opened_files'[i].closed
        /\ i \in 1..Len(opened_files) => ~opened_files[i].closed

(* C24: every file attached as a part of an image-edit request (main image,   *)
(* mask, additional images) is open when the request is sent, in every client *)
(* and mode; a file is closed only by the step in which the call has its      *)
(* response or raises.                                                        *)
C24_PartsOpenAtSend ==
    /\ [] (\A i \in 1..Len(posted) : ~posted[i].closed)
    /\ [][ ClosesAFile => (pc' = "img_idle" /\ result'.kind # "none") ]_vars

\* the running call of edit_image_async has returned or raised
EditAsyncExited ==
    /\ entry = "edit_image_async"
    /\ pc = "img_idle"
    /\ result.kind # "none"

(* C25: edit_image_async leaks no file handle. On every way out (success, a   *)
(* non-200 answer, an answer without data, a network error, a mask or a k-th  *)
(* additional image that cannot be opened after earlier files were opened)    *)
(* every file the call opened is closed when the call returns or raises; and  *)
(* every file it opens is among the handles it tracks: the main image first,  *)
(* and all parts of a request that was sent.                                  *)
C25_NoHandleLeak ==
    /\ EditAsyncExited => \A i \in 1..Len(opened_files) : opened_files[i].closed
    /\ (EditAsyncExited /\ Exists(call.image_path)) =>
          /\ Len(opened_files) >= 1
          /\ opened_files[1].path = call.image_path
    /\ (EditAsyncExited /\ posted # <<>>) =>
          /\ Len(opened_files) = Len(posted)
          /\ \A i \in 1..Len(posted) : opened_files[i].path = posted[i].path
    /\ (entry = "edit_image_async" /\ pc \in {"img_post", "img_wait"}) =>
          \A i \in 1..Len(opened_files) : ~opened_files[i].closed

\* the mask or an additional image could not be opened: the files opened
\* before it are closed when the call raises, and no request was sent
C25_Witness ==
    /\ EditAsyncExited
    /\ result.kind = "raised"
    /\ result.exc.site = "open"
    /\ Len(opened_files) >= 1
    /\ posted = <<>>
    /\ \A i \in 1..Len(opened_files) : opened_files[i].closed

\* the succeeded job that generate_video got from its poller has a first
\* generation without an id
FirstGenerationWithoutId ==
    /\ cls = "SoraClient"
    /\ entry = "generate_video"
    /\ job_data.status = Str("succeeded")
    /\ job_data.generations.present
    /\ job_data.generations.list # <<>>
    /\ job_data.generations.list[1].id = None

\* the content URL whose generation segment is the text 'None'
NoneUrl ==
    <<endpoint, "/", videopath, "/", "None", "/content/video">> \o params

\* the call ended with what its one download, of NoneUrl, yielded
OutcomeOfNoneDownload ==
    /\ Count("GET_content") = 1
    /\ OfKind(requests, "GET_content")[1].url = NoneUrl
    /\ IF response.kind = "http" /\ response.code = 200
       THEN result = ReturnedBytes(response.content)
       ELSE /\ result.kind = "raised"
            /\ result.stage = "download"
            /\ result.exc.site \in {"download_get", "download_status"}

(* C26 (as stated): when the first generation of the succeeded job carries no *)
(* id, generate_video does not raise before fetching: exactly one download    *)
(* request is sent, to the content URL with the segment 'None', and the       *)
(* outcome of the call is what that download yields.                          *)
C26_NoneIdStillDownloads ==
    (FirstGenerationWithoutId /\ pc = "done") => OutcomeOfNoneDownload

(* C26 (amended): when the first generation of the succeeded job carries no   *)
(* id, the extraction never raises and builds the content URL with the        *)
(* segment 'None'; the downloader then resolves the credentials again, and    *)
(* if that fails the call raises that error and no download request is sent;  *)
(* otherwise exactly one download request is sent, to that URL, and the       *)
(* outcome of the call is what the download yields. With a static key the     *)
(* resolution cannot fail.                                                    *)
C26_NoneIdDownloadsAfterHeaders ==
    /\ [][ (FirstGenerationWithoutId /\ pc = "gen_extract") =>
             /\ pc' = "dl_headers"
             /\ video_url' = NoneUrl
             /\ result' = NoResult
             /\ requests' = requests ]_vars
    /\ [] ((FirstGenerationWithoutId /\ pc = "done") =>
             IF result.exc.site \in {"get_headers", "get_token"}
             THEN /\ Count("GET_content") = 0
                  /\ result.kind = "raised"
                  /\ result.stage = "download"
                  /\ ~Truthy(api_key)
             ELSE OutcomeOfNoneDownload)
    /\ [] ((FirstGenerationWithoutId /\ pc \in {"dl_headers", "dl_get", "dl_wait"}) =>
             /\ video_url = NoneUrl
             /\ result = NoResult)

\* the download of the 'None' URL was answered with bytes, which the call
\* returned
C26_Witness ==
    /\ FirstGenerationWithoutId
    /\ pc = "done"
    /\ result.kind = "returned"
    /\ Count("GET_content") = 1
    /\ OfKind(requests, "GET_content")[1].url = NoneUrl

====
